---- MODULE Spec2Model ----
(***************************************************************************)
(* Window-sticker option extraction (sticker_to_ad.py) and its use on the  *)
(* production path (runner_cron_prod.py).  Text is modelled as TLA+        *)
(* strings processed character by character, the way the Python code and   *)
(* its regular expressions process it.                                     *)
(***************************************************************************)
EXTENDS Integers, Sequences, FiniteSets, TLC

VARIABLES
    pc,          \* position inside the entry point being run
    txt,         \* extract_vin_from_text: the text argument
    vin,         \* extract_vin_from_text: the value returned
    spans,       \* the document's layout spans (extract_spans_pdfminer)
    page_lines,  \* the document's flattened text, line by line (pdfminer extract_text)
    ocr_lines,   \* what OCR recognises in the document, line by line
    out1,        \* extract_option_groups_from_spans(spans)
    out2,        \* extract_paid_options_from_text(page_lines)
    out3,        \* extract_option_groups_from_ocr(ocr_lines)
    args,        \* main: the command-line arguments
    pdf_exists,  \* main: whether args.pdf names an existing file
    pytesseract, \* whether the OCR toolchain was imported
    parses,      \* main: whether pdfminer can parse the file
    pdftoppm,    \* main: whether the pdftoppm command runs and succeeds
    raised,      \* main: the exception that escaped, "" if none
    groups,      \* main: groups; _build_ad_text: options
    calls,       \* the tiers attempted so far, in order
    ad,          \* the text built, line by line
    rc,          \* main: << >> while running, then <<the value returned>>
    USE_STICKER_AD, \* runner_cron_prod: KENBOT_FB_USE_STICKER_AD
    v,           \* _build_ad_text: the vehicle
    storage,     \* the vehicle's blobs pdf_ok/<vin>.pdf, pdf_bad/<vin>.pdf, and its sticker_pdfs row
    remote,      \* what the manufacturer's window-sticker URL answers
    res,         \* _build_ad_text: status returned by ensure_sticker_cached
    pdf_bytes,   \* _build_ad_text: the blob downloaded for extraction
    used,        \* _build_ad_text: where the returned text came from
    now,         \* concurrent extraction: int(time.time()), the clock in seconds
    tmpfs,       \* concurrent extraction: the files /tmp/sticker_<second>.pdf
    workers,     \* concurrent extraction: each invocation's position, blob and result
    sample,      \* the predicates: the two lines they are applied to
    verdict,     \* the predicates: what each returned for each line
    fetches,     \* sticker cache: how many times the remote sticker was requested
    ncalls,      \* sticker cache: how many calls of ensure_sticker_cached returned
    lock,        \* run lock: the blob locks/runner.lock, << >> if absent
    runs,        \* run lock: each execution of main, its position and what it read
    inventory,   \* cron run: the inventory table, status and last update by slug
    posts,       \* cron run: the posts table and the message on Facebook, by slug
    run,         \* cron run: the run in progress, what it scraped and read
    runlog,      \* cron run: the runs so far, what each saw and whether it was valid
    base_text,   \* sold banner: the text a post had before it was marked
    message,     \* sold banner: the post's text now
    stripped,    \* sold banner: <<_strip_sold_banner(message)>> once computed
    marks        \* sold banner: how many times the post was marked sold

vinVars == <<txt, vin>>

docVars == <<spans, page_lines, ocr_lines>>

tierVars == <<out1, out2, out3>>

mainVars == <<args, pdf_exists, pytesseract, parses, pdftoppm, raised, groups, calls, ad, rc>>

prodVars == <<USE_STICKER_AD, v, storage, remote, res, pdf_bytes, used>>

concVars == <<now, tmpfs, workers>>

predVars == <<sample, verdict>>

cacheVars == <<fetches, ncalls>>

lockVars == <<lock, runs>>

soldVars == <<inventory, posts, run, runlog>>

bannerVars == <<base_text, message, stripped, marks>>

cronVars == <<cacheVars, lockVars, soldVars, bannerVars>>

vars == <<pc, txt, vin, spans, page_lines, ocr_lines, out1, out2, out3,
          args, pdf_exists, pytesseract, parses, pdftoppm, raised, groups, calls, ad, rc,
          USE_STICKER_AD, v, storage, remote, res, pdf_bytes, used,
          now, tmpfs, workers, sample, verdict, fetches, ncalls, lock, runs,
          inventory, posts, run, runlog, base_text, message, stripped, marks>>

----------------------------------------------------------------------------
(* Characters and strings *)

Char(s, i) == SubSeq(s, i, i)

SafeChar(s, i) == IF i >= 1 /\ i <= Len(s) THEN Char(s, i) ELSE ""

CharsOf(s) == {Char(s, i) : i \in 1..Len(s)}

NBSP == " "

UpperLetters == "ABCDEFGHIJKLMNOPQRSTUVWXYZÀÂÇÈÉÊËÎÏÔÙÛ"

LowerLetters == "abcdefghijklmnopqrstuvwxyzàâçèéêëîïôùû"

AsciiLetterChars == CharsOf("ABCDEFGHIJKLMNOPQRSTUVWXYZabcdefghijklmnopqrstuvwxyz")

DigitChars == CharsOf("0123456789")

WsChars == {" ", "\t", "\n", NBSP}

\* Code points above U+00FF are written with a Latin-1 stand-in each, a character
\* that is neither a letter, a digit nor white space and occurs nowhere else.
EnDash == "¯"

EmDash == "¬"

MinusSign == "¸"

CurlyApostrophe == "´"

Bullet == "·"

DashChars == {"-", EnDash, EmDash}

\* \w of Python's re on str: letters (accented ones too), digits, underscore
WordChars == CharsOf(UpperLetters) \cup CharsOf(LowerLetters) \cup DigitChars \cup {"_"}

LowerTable == [c \in CharsOf(UpperLetters) |->
                 Char(LowerLetters, CHOOSE i \in 1..Len(UpperLetters) : Char(UpperLetters, i) = c)]

UpperTable == [c \in CharsOf(LowerLetters) |->
                 Char(UpperLetters, CHOOSE i \in 1..Len(LowerLetters) : Char(LowerLetters, i) = c)]

\* parts[a] \o parts[a + 1] \o ... \o parts[b], by halves
RECURSIVE JoinRange(_, _, _)
JoinRange(parts, a, b) ==
    IF a > b THEN ""
    ELSE IF a = b THEN parts[a]
    ELSE LET m == (a + b) \div 2
         IN JoinRange(parts, a, m) \o JoinRange(parts, m + 1, b)

\* "".join(parts)
Join(parts) == JoinRange(parts, 1, Len(parts))

\* every character of s replaced by its image in table, when it has one
MapChars(s, table) ==
    Join([i \in 1..Len(s) |->
            IF Char(s, i) \in DOMAIN table THEN table[Char(s, i)] ELSE Char(s, i)])

Lower(s) == MapChars(s, LowerTable)

Upper(s) == MapChars(s, UpperTable)

Contains(s, sub) ==
    \E i \in 1..(Len(s) - Len(sub) + 1) : SubSeq(s, i, i + Len(sub) - 1) = sub

StartsWith(s, pre) == Len(pre) <= Len(s) /\ SubSeq(s, 1, Len(pre)) = pre

IsWordAt(s, i) == SafeChar(s, i) \in WordChars

\* the characters of s that belong to keep, in order
KeepChars(s, keep) ==
    Join([i \in 1..Len(s) |-> IF Char(s, i) \in keep THEN Char(s, i) ELSE ""])

RemoveChars(s, drop) ==
    Join([i \in 1..Len(s) |-> IF Char(s, i) \in drop THEN "" ELSE Char(s, i)])

Min(S) == CHOOSE x \in S : \A y \in S : x <= y

Max(S) == CHOOSE x \in S : \A y \in S : x >= y

\* last index of the run of characters of set that starts at i (i - 1: no run)
RunEnd(s, i, set) ==
    LET out == {j \in i..Len(s) : Char(s, j) \notin set}
    IN IF i > Len(s) THEN i - 1 ELSE IF out = {} THEN Len(s) ELSE Min(out) - 1

LStrip(s, set) == SubSeq(s, RunEnd(s, 1, set) + 1, Len(s))

RStrip(s, set) ==
    LET in == {j \in 1..Len(s) : Char(s, j) \notin set}
    IN IF in = {} THEN "" ELSE SubSeq(s, 1, Max(in))

StripChars(s, set) == LStrip(RStrip(s, set), set)

\* str.strip()
Strip(s) == StripChars(s, WsChars)

\* re.sub(r"\s+", " ", s): one space for the first character of each run
CollapseWs(s) ==
    Join([i \in 1..Len(s) |->
            IF Char(s, i) \notin WsChars THEN Char(s, i)
            ELSE IF SafeChar(s, i - 1) \in WsChars THEN "" ELSE " "])

normalize(s) == Strip(CollapseWs(s))

----------------------------------------------------------------------------
(* extract_vin_from_text *)

VinLen == 17

VinChars == CharsOf("ABCDEFGHJKLMNPRSTUVWXYZ0123456789")

AsciiUpperAlnum == CharsOf("ABCDEFGHIJKLMNOPQRSTUVWXYZ0123456789")

AllIn(s, a, b, set) == \A k \in a..b : SafeChar(s, k) \in set

\* \b([A-HJ-NPR-Z0-9]{17})\b matches at i
VinContiguousAt(t, i) ==
    /\ AllIn(t, i, i + VinLen - 1, VinChars)
    /\ ~IsWordAt(t, i - 1)
    /\ ~IsWordAt(t, i + VinLen)

\* the three-chunk pattern at i: <<matched, g1 + g2 + g3>>.  A chunk is a whole
\* run of VIN characters: the pattern lets nothing but \s*, one dash, \s* follow
\* chunks 1 and 2, and a word boundary follow chunk 3.
VinChunksAt(t, i) ==
    LET e1 == RunEnd(t, i, VinChars)
        d1 == RunEnd(t, e1 + 1, WsChars) + 1
        s2 == RunEnd(t, d1 + 1, WsChars) + 1
        e2 == RunEnd(t, s2, VinChars)
        d2 == RunEnd(t, e2 + 1, WsChars) + 1
        s3 == RunEnd(t, d2 + 1, WsChars) + 1
        e3 == RunEnd(t, s3, VinChars)
        ok == /\ ~IsWordAt(t, i - 1)
              /\ (e1 - i + 1) \in 3..6
              /\ SafeChar(t, d1) \in DashChars
              /\ (e2 - s2 + 1) \in 4..8
              /\ SafeChar(t, d2) \in DashChars
              /\ (e3 - s3 + 1) \in 3..8
              /\ ~IsWordAt(t, e3 + 1)
    IN IF ok THEN <<TRUE, SubSeq(t, i, e1) \o SubSeq(t, s2, e2) \o SubSeq(t, s3, e3)>>
       ELSE <<FALSE, "">>

FirstIndex(n, P(_)) == IF \E i \in 1..n : P(i) THEN CHOOSE i \in 1..n : P(i) /\ \A k \in 1..(i - 1) : ~P(k) ELSE 0

VinWindowScan(t) ==
    LET compact == KeepChars(t, AsciiUpperAlnum)
        Good(i) == AllIn(compact, i, i + VinLen - 1, VinChars)
        w == FirstIndex(Len(compact) - (VinLen - 1), Good)
    IN IF w = 0 THEN "" ELSE SubSeq(compact, w, w + VinLen - 1)

\* the same without the length test
VinChunkCandidateAnyLength(cand) == AllIn(cand, 1, Len(cand), VinChars)

\* len(cand) == 17 and not re.search(r"[IOQ]", cand)
VinChunkCandidate(cand) == Len(cand) = VinLen /\ AllIn(cand, 1, Len(cand), VinChars)

extract_vin_from_text(text) ==
    IF text = "" THEN ""
    ELSE LET t == Upper(text)
             C1(i) == VinContiguousAt(t, i)
             m == FirstIndex(Len(t), C1)
             C2(i) == VinChunksAt(t, i)[1]
             m2 == FirstIndex(Len(t), C2)
             cand == IF m2 = 0 THEN "" ELSE VinChunksAt(t, m2)[2]
         IN IF m # 0 THEN SubSeq(t, m, m + VinLen - 1)
            ELSE IF m2 # 0 /\ VinChunkCandidate(cand) THEN cand
            ELSE VinWindowScan(t)

----------------------------------------------------------------------------
(* Prices, junk and hard stops *)

\* a maximal run of word characters made of digits only starts at i
DigitWordAt(s, i) ==
    /\ SafeChar(s, i) \in DigitChars
    /\ ~IsWordAt(s, i - 1)
    /\ ~IsWordAt(s, RunEnd(s, i, DigitChars) + 1)

\* re.search(r"(\$\s*)?\b\d[\d\s.,]*\b\s*\$?", s): between the two \b only digits
\* are word characters, so the match needs a whole word of digits
is_price_token(s) ==
    LET n == normalize(s) IN \E i \in 1..Len(n) : DigitWordAt(n, i)

ThreeDigitsAt(s, i) == AllIn(s, i, i + 2, DigitChars)

\* (?:[,\s]\d{3})* taken greedily; e is the last index matched so far
RECURSIVE ThousandsEnd(_, _)
ThousandsEnd(s, e) ==
    IF SafeChar(s, e + 1) \in ({","} \cup WsChars) /\ ThreeDigitsAt(s, e + 2)
    THEN ThousandsEnd(s, e + 4)
    ELSE e

\* last index of group 1, \d{1,3}(?:[,\s]\d{3})*(?:[.,]\d{2})?, which starts at digit i
PriceGroupEnd(s, i) ==
    LET d == RunEnd(s, i, DigitChars)
        a == IF d > i + 2 THEN i + 2 ELSE d
        b == ThousandsEnd(s, a)
    IN IF SafeChar(s, b + 1) \in {".", ","} /\ AllIn(s, b + 2, b + 3, DigitChars)
       THEN b + 3 ELSE b

\* where group 1 starts when the money pattern matches at i (0: no match at i)
PriceGroupStart(s, i) ==
    IF SafeChar(s, i) \in DigitChars THEN i
    ELSE IF SafeChar(s, i) = "$"
         THEN LET d == RunEnd(s, i + 1, WsChars) + 1
              IN IF SafeChar(s, d) \in DigitChars THEN d ELSE 0
         ELSE 0

\* last index of the whole match, \s*\$? after group 1 included
PriceMatchEnd(s, g) ==
    LET w == RunEnd(s, PriceGroupEnd(s, g) + 1, WsChars)
    IN IF SafeChar(s, w + 1) = "$" THEN w + 1 ELSE w

\* f"{raw} $" of the group that starts at g
PriceText(s, g) ==
    LET raw == normalize(SubSeq(s, g, PriceGroupEnd(s, g)))
    IN KeepChars(raw, CharsOf(raw) \ {" "}) \o " $"

\* None is modelled as ""
extract_price(s) ==
    LET n == normalize(s)
        IsDigit(i) == Char(n, i) \in DigitChars
        g == FirstIndex(Len(n), IsDigit)
    IN IF g = 0 THEN "" ELSE PriceText(n, g)

\* re.sub(r"[^A-Za-zÀ-ÿ]", "", s): À-ÿ is U+00C0..U+00FF, the multiplication and
\* the division sign included
LatinLetterChars ==
    AsciiLetterChars \cup
    CharsOf("ÀÁÂÃÄÅÆÇÈÉÊËÌÍÎÏÐÑÒÓÔÕÖ×ØÙÚÛÜÝÞßàáâãäåæçèéêëìíîïðñòóôõö÷øùúûüýþÿ")

letter_count(s) == Len(KeepChars(s, LatinLetterChars))

MinTitleLetters == 2

\* extract_price(t) and len(re.sub(r"[^A-Za-zÀ-ÿ]", "", t)) < 2
is_price_only_text(t) == extract_price(t) # "" /\ letter_count(t) < MinTitleLetters

banned ==
    << "année modèle", "annee modele", "prix de base", "prix total", "p.d.s.f",
       "pdsf", "préparation", "preparation", "frais d'expédition",
       "frais d expedition", "destination", "destination charge", "freight",
       "shipping", "energuide", "consommation", "annual fuel cost",
       "coût annuel", "cout annuel", "garantie", "assistance routière",
       "assistance routiere", "transférable", "transferable", "motopropulseur",
       "fca canada", "ce véhicule est fabriqué", "ce vehicule est fabrique",
       "vehicles.nrcan", "vehicules.nrcan", "indice", "smog", "carbon",
       "tailpipe", "government of canada", "visitez le site web", "contactez",
       "pour de plus amples renseignements",
       "manufacturer's suggested retail price", "suggested retail price", "msrp",
       "tariff adjustment", "total price", "base price", "destination charge",
       "freight charge", "destination charge", "tariff adjustment",
       "federal a/c excise tax", "frais d" \o CurlyApostrophe \o "expédition",
       "taxe d" \o CurlyApostrophe \o "accise", "taxe d'accise",
       "federal a c excise tax" >>

ContainsAny(s, phrases) == \E k \in 1..Len(phrases) : Contains(s, phrases[k])

JunkFoldTable ==
    [c \in {CurlyApostrophe, MinusSign, EnDash, NBSP} |->
        IF c = CurlyApostrophe THEN "'" ELSE IF c = NBSP THEN " " ELSE "-"]

MaxLabelLen == 90

looks_like_junk(s) ==
    IF s = "" THEN TRUE
    ELSE LET low == MapChars(Lower(s), JunkFoldTable)
         IN \/ ContainsAny(low, banned)
            \/ Contains(low, "http")
            \/ Contains(low, "www.")
            \/ Len(s) > MaxLabelLen

stop_phrases ==
    << "le concessionnaire", "peut vendre moins cher", "expedier a", "expédier à",
       "expedie a", "expédié à", "vendu a", "vendu à", "par le concessionnaire",
       "the dealer", "may sell for less", "shipped to", "sold to", "by dealer" >>

is_hard_stop_detail(t) ==
    LET low == Strip(Lower(t))
    IN low = "s.l." \/ ContainsAny(low, stop_phrases)

\* \bwww\.[^\s]+ (re.I) matches at i
WwwAt(s, i) ==
    /\ i + 4 <= Len(s)
    /\ Lower(SubSeq(s, i, i + 3)) = "www."
    /\ ~IsWordAt(s, i - 1)
    /\ Char(s, i + 4) \notin WsChars

\* re.sub(r"\bwww\.[^\s]+", "", s, flags=re.I), from index i on
RECURSIVE RemoveWww(_, _)
RemoveWww(s, i) ==
    LET starts == {p \in i..Len(s) : WwwAt(s, p)}
        p == Min(starts)
    IN IF starts = {} THEN SubSeq(s, i, Len(s))
       ELSE SubSeq(s, i, p - 1) \o RemoveWww(s, RunEnd(s, p + 4, CharsOf(s) \ WsChars) + 1)

\* the second pass, re.sub(r"\s{2,}", " ", s), collapses runs as the first does
clean_option_line(s) ==
    Strip(CollapseWs(Strip(RemoveWww(normalize(s), 1))))

----------------------------------------------------------------------------
(* Sequences *)

\* the elements of seq at the indices of idx, in index order
PickIndices(seq, idx) ==
    [k \in 1..Cardinality(idx) |->
        seq[CHOOSE i \in idx : Cardinality({j \in idx : j < i}) = k - 1]]

MapSeq(seq, F(_)) == [i \in 1..Len(seq) |-> F(seq[i])]

\* seq[:n]
Take(seq, n) == SubSeq(seq, 1, IF Len(seq) < n THEN Len(seq) ELSE n)

\* the first element of each key kept, as a seen-set loop keeps it
DedupByKey(seq, Key(_)) ==
    PickIndices(seq, {i \in 1..Len(seq) : \A j \in 1..(i - 1) : Key(seq[j]) # Key(seq[i])})

----------------------------------------------------------------------------
(* Tier 1: extract_option_groups_from_spans *)

\* A span is [text, x0, y0]; x1, y1 and bold_ratio are not read by this tier.
\* A group is [title, price, details]; a price of None is "".

ANCHORS == << "ACCESSOIRES OPTIONNELS", "OPTIONAL EQUIPMENT" >>

has_anchor(text) == ContainsAny(Upper(text), ANCHORS)

RIGHT_TEXT_MIN_X == 250

RIGHT_TEXT_MAX_X == 445

PRICE_MIN_X == 445

DETAIL_INDENT_X == 315

PRICE_TOL == 6

NO_PRICE_DY == 9999

MaxFlushDetailLen == 70

T1GroupCap == 12

is_junk_detail(t) ==
    LET low == Strip(Lower(t))
    IN \/ looks_like_junk(t)
       \/ (t # "" /\ AllIn(t, 1, Len(t), DigitChars \cup WsChars \cup DashChars))
       \/ ContainsAny(low, << "expedier", "vendu", "concessionnaire", "dealer",
                              "shipped", "sold" >>)

\* max(anchors, key=lambda sp: sp.y0).y0
anchor_y_of(sps) ==
    Max({sps[i].y0 : i \in {k \in 1..Len(sps) : has_anchor(sps[k].text)}})

InRightText(sp, anchor_y) ==
    /\ sp.y0 <= anchor_y
    /\ clean_option_line(sp.text) # ""
    /\ RIGHT_TEXT_MIN_X <= sp.x0 /\ sp.x0 <= RIGHT_TEXT_MAX_X
    /\ ~looks_like_junk(clean_option_line(sp.text))

InPrices(sp, anchor_y) ==
    /\ sp.y0 <= anchor_y
    /\ clean_option_line(sp.text) # ""
    /\ sp.x0 >= PRICE_MIN_X
    /\ is_price_token(sp.text)
    /\ extract_price(sp.text) # ""

\* right_text.sort(key=lambda s: s.y0, reverse=True): a stable sort
SortByYDesc(seq) ==
    LET rank(i) == Cardinality({j \in 1..Len(seq) : seq[j].y0 > seq[i].y0})
                   + Cardinality({j \in 1..(i - 1) : seq[j].y0 = seq[i].y0}) + 1
    IN [k \in 1..Len(seq) |-> seq[CHOOSE i \in 1..Len(seq) : rank(i) = k]]

Abs(n) == IF n < 0 THEN 0 - n ELSE n

\* nearest_price without its tolerance: the nearest token at any distance
nearest_price_index_any_distance(prices, y, tol) ==
    LET dy(i) == Abs(prices[i].y0 - y)
        near == {i \in 1..Len(prices) : dy(i) < NO_PRICE_DY}
    IN IF near = {} THEN 0
       ELSE CHOOSE i \in near :
               /\ \A j \in near : dy(i) <= dy(j)
               /\ \A j \in near : j < i => dy(j) > dy(i)

\* index in prices of the token nearest_price(y) settles on (0: None): the first
\* one at the least distance, when that distance is within tol
nearest_price_index(prices, y, tol) ==
    LET dy(i) == Abs(prices[i].y0 - y)
        near == {i \in 1..Len(prices) : dy(i) < NO_PRICE_DY}
        best == IF near = {} THEN 0
                ELSE CHOOSE i \in near :
                        /\ \A j \in near : dy(i) <= dy(j)
                        /\ \A j \in near : j < i => dy(j) > dy(i)
    IN IF best # 0 /\ dy(best) <= tol THEN best ELSE 0

nearest_price(prices, y, tol) ==
    LET i == nearest_price_index(prices, y, tol)
    IN IF i = 0 THEN "" ELSE extract_price(prices[i].text)

\* one pass of "for sp in right_text" from index i; current is <<>> or <<group>>
RECURSIVE T1Scan(_, _, _, _, _)
T1Scan(rt, prices, i, gs, current) ==
    IF i > Len(rt) THEN gs \o current
    ELSE
    LET sp == rt[i]
        text == clean_option_line(sp.text)
        p == nearest_price(prices, sp.y0, PRICE_TOL)
        is_detail_by_indent == sp.x0 >= DETAIL_INDENT_X
        skip == T1Scan(rt, prices, i + 1, gs, current)
    IN IF text = "" THEN skip
       ELSE IF is_price_only_text(text) THEN skip
       ELSE IF looks_like_junk(text) THEN skip
       ELSE IF has_anchor(text) THEN skip
       ELSE IF is_hard_stop_detail(text) THEN gs \o current
       ELSE IF p # ""
            THEN T1Scan(rt, prices, i + 1, gs \o current,
                        << [title |-> text, price |-> p, details |-> << >>] >>)
       ELSE IF current = << >> THEN skip
       ELSE IF is_junk_detail(text) THEN skip
       ELSE IF (~is_detail_by_indent) /\ Len(text) > MaxFlushDetailLen THEN skip
       ELSE IF Lower(text) = Lower(current[1].title) THEN skip
       ELSE T1Scan(rt, prices, i + 1, gs,
                   << [current[1] EXCEPT !.details = Append(@, text)] >>)

BAN_TITLES ==
    << "destination charge", "tariff adjustment", "federal a/c excise tax",
       "federal a c excise tax", "federal a c excise tax" >>

T1KeepGroup(g) ==
    LET opt_title == Strip(g.title)
    IN /\ opt_title # ""
       /\ ~Contains(Upper(opt_title), "TAXE ACCISE")
       /\ ~ContainsAny(Lower(opt_title), BAN_TITLES)
       /\ ~looks_like_junk(opt_title)

T1Cleaned(gs) == SelectSeq(gs, T1KeepGroup)

\* the list "cleaned", before the final cleaned[:12]
T1Groups(sps) ==
    IF sps = << >> THEN << >>
    ELSE IF \A i \in 1..Len(sps) : ~has_anchor(sps[i].text) THEN << >>
    ELSE LET anchor_y == anchor_y_of(sps)
             IsLabel(sp) == InRightText(sp, anchor_y)
             IsPrice(sp) == InPrices(sp, anchor_y)
             right_text == SortByYDesc(SelectSeq(sps, IsLabel))
             prices == SelectSeq(sps, IsPrice)
         IN T1Cleaned(T1Scan(right_text, prices, 1, << >>, << >>))

extract_option_groups_from_spans(sps) == Take(T1Groups(sps), T1GroupCap)

----------------------------------------------------------------------------
(* Tier 2: extract_paid_options_from_text *)

\* Text is a sequence of lines, what str.splitlines() gives.

T2GroupCap == 12

HasDigit(s) == \E i \in 1..Len(s) : Char(s, i) \in DigitChars

\* group 1 start when price_only_re matches the whole line (0: no match): the
\* pattern leaves only \s*\$?\s* after the group, so the greedy group is the
\* only one that can reach the end of the line
PriceOnlyStart(line) ==
    LET a == RunEnd(line, 1, WsChars) + 1
        g == PriceGroupStart(line, a)
    IN IF g # 0 /\ RunEnd(line, PriceMatchEnd(line, g) + 1, WsChars) = Len(line)
       THEN g ELSE 0

\* the nested is_price_only(line); None is ""
is_price_only(line) ==
    IF PriceOnlyStart(line) = 0 THEN "" ELSE PriceText(line, PriceOnlyStart(line))

keep_prefixes ==
    << "ENSEMBLE", "ATTELAGE", "COMMANDE", "TAPIS", "ESSIEU", "PNEU", "PNEUS",
       "CROCHETS", "PLAQUE", "AJOUT", "TAXE", "SUPPORT", "SIEGE", "SIÈGE", "PRISE",
       "BANQUETTE", "BANQ", "DIFFERENTIEL", "DIFF", "GROUP", "PACKAGE", "MOPAR",
       "CLASS", "CARGO", "SAFETY", "PREMIUM", "CUSTOMER" >>

HasKeepPrefix(lb) == \E k \in 1..Len(keep_prefixes) : StartsWith(Upper(lb), keep_prefixes[k])

\* index of the anchor line (0: none)
T2StartIdx(lines) ==
    LET IsAnchor(i) == has_anchor(lines[i]) IN FirstIndex(Len(lines), IsAnchor)

\* the lines the loop reads: after the anchor, up to the first hard stop
T2Body(lines) ==
    LET start == T2StartIdx(lines)
        IsStop(j) == j > start /\ lines[j] # "" /\ is_hard_stop_detail(lines[j])
        stop == FirstIndex(Len(lines), IsStop)
    IN SubSeq(lines, start + 1, IF stop = 0 THEN Len(lines) ELSE stop - 1)

T2IsPriceLine(l) == l # "" /\ is_price_only(l) # ""

\* a label line without the money and junk screens: any text that is not a price
T2IsLabelLineUnscreened(l) ==
    l # "" /\ is_price_only(l) = "" /\ clean_option_line(l) # ""

T2IsLabelLine(l) ==
    /\ l # ""
    /\ is_price_only(l) = ""
    /\ ~HasDigit(l)
    /\ clean_option_line(l) # ""
    /\ ~looks_like_junk(clean_option_line(l))

T2Labels(lines) == MapSeq(SelectSeq(T2Body(lines), T2IsLabelLine), clean_option_line)

T2Prices(lines) == MapSeq(SelectSeq(T2Body(lines), T2IsPriceLine), is_price_only)

\* the label queue without the restriction to the curated prefixes
T2UseLabelsUnfiltered(labels) == labels

T2UseLabels(labels) ==
    IF SelectSeq(labels, HasKeepPrefix) # << >> THEN SelectSeq(labels, HasKeepPrefix)
    ELSE labels

\* f"{use_labels[i]} ({prices[i]})"
T2Pair(label, price) == label \o " (" \o price \o ")"

T2Out(use_labels, prices) ==
    [i \in 1..(IF Len(use_labels) < Len(prices) THEN Len(use_labels) ELSE Len(prices)) |->
        T2Pair(use_labels[i], prices[i])]

\* the list "final", before the final final[:12]
T2Final(raw_lines) ==
    LET lines == MapSeq(raw_lines, normalize)
    IN IF T2StartIdx(lines) = 0 THEN << >>
       ELSE DedupByKey(T2Out(T2UseLabels(T2Labels(lines)), T2Prices(lines)), Lower)

extract_paid_options_from_text(raw_lines) == Take(T2Final(raw_lines), T2GroupCap)

----------------------------------------------------------------------------
(* Tier 3: extract_option_groups_from_ocr *)

T3GroupCap == 12

MaxFlushOcrDetailLen == 80

MinOcrIndent == 2

indent_level(s) == RunEnd(s, 1, {" "})

banned_titles ==
    << "destination charge", "freight", "freight charge", "shipping",
       "tariff adjustment", "msrp", "manufacturer's suggested retail price",
       "suggested retail price", "p.d.s.f", "pdsf", "prix total", "total price",
       "prix de base", "base price", "federal a/c excise tax",
       "federal a c excise tax" >>

\* price_re.sub("", s), from index i on: leftmost matches, one after the other
RECURSIVE RemovePrices(_, _)
RemovePrices(s, i) ==
    LET starts == {p \in i..Len(s) : PriceGroupStart(s, p) # 0}
        p == Min(starts)
    IN IF starts = {} THEN SubSeq(s, i, Len(s))
       ELSE SubSeq(s, i, p - 1)
            \o RemovePrices(s, PriceMatchEnd(s, PriceGroupStart(s, p)) + 1)

\* price_re.sub("", ln).strip(" -–:•\t"), then clean_option_line
T3Title(ln) ==
    clean_option_line(StripChars(RemovePrices(ln, 1), {" ", "-", EnDash, ":", Bullet, "\t"}))

T3TitleOk(title) ==
    /\ title # ""
    /\ ~looks_like_junk(title)
    /\ ~is_price_only_text(title)
    /\ ~ContainsAny(Lower(title), banned_titles)

\* a line is <<text, indent>>
T3DetailOk(line, current) ==
    LET d == clean_option_line(line[1])
    IN /\ d # ""
       /\ ~looks_like_junk(d)
       /\ ~is_price_only_text(d)
       /\ ~(line[2] < MinOcrIndent /\ Len(d) > MaxFlushOcrDetailLen)
       /\ Lower(d) # Lower(current.title)

\* one pass of "for (ln, ind) in lines" from index i; current is <<>> or <<group>>
RECURSIVE T3Scan(_, _, _, _)
T3Scan(lines, i, gs, current) ==
    IF i > Len(lines) THEN gs \o current
    ELSE
    LET ln == lines[i][1]
        title == T3Title(ln)
        skip == T3Scan(lines, i + 1, gs, current)
    IN IF is_hard_stop_detail(ln) THEN gs \o current
       ELSE IF HasDigit(ln)
            THEN IF T3TitleOk(title)
                 THEN T3Scan(lines, i + 1, gs \o current,
                             << [title |-> title, price |-> extract_price(ln),
                                 details |-> << >>] >>)
                 ELSE skip
       ELSE IF current # << >> /\ T3DetailOk(lines[i], current[1])
            THEN T3Scan(lines, i + 1, gs,
                        << [current[1] EXCEPT !.details = Append(@, clean_option_line(ln))] >>)
       ELSE skip

T3DedupKey(g) == Strip(Lower(g.title))

T3HasKey(g) == T3DedupKey(g) # ""

T3Line(x) == << normalize(x), indent_level(x) >>

T3NonEmpty(line) == line[1] # ""

\* the list "final", before the final final[:12]
T3Final(lines_raw) ==
    LET lines == SelectSeq(MapSeq(lines_raw, T3Line), T3NonEmpty)
    IN DedupByKey(SelectSeq(T3Scan(lines, 1, << >>, << >>), T3HasKey), T3DedupKey)

\* the same without the cap
extract_option_groups_from_ocr_uncapped(lines_raw) == T3Final(lines_raw)

extract_option_groups_from_ocr(lines_raw) == Take(T3Final(lines_raw), T3GroupCap)

----------------------------------------------------------------------------
(* Documents *)

\* A sticker is described row by row, top to bottom below the section header:
\* a row is a label at x0 (or none), a price in the price column (or none) and
\* the distance dy to the row above.  The three tiers read three renderings of
\* the same rows: positioned spans, flattened text, recognised text.

MaxRows == 2

BulkLen == 13

\* the section header's height on the page, well above every row
AnchorY == 100 * PRICE_TOL

\* the label column, inside the label band
LabelX == RIGHT_TEXT_MIN_X + 10

\* the indented sub-line column
IndentX == DETAIL_INDENT_X + 5

\* the price column, inside the price band
PriceX == PRICE_MIN_X + 15

LongLabel ==
    "ENSEMBLE ALLURE SPORT AVEC ROUES EN ALUMINIUM ET SIEGES AVANT CHAUFFANTS EN CUIR NOIR"

LongDetail ==
    "Comprend les roues en aluminium et les pneus toutes saisons de marque reconnue"

Row(label, price, x0, dy) == [label |-> label, price |-> price, x0 |-> x0, dy |-> dy]

\* a charge printed with its amount on one line
DestinationLine == "DESTINATION CHARGE 1895 $"

\* rows found on most stickers: a priced option and its indented sub-line
BaseRows ==
    { Row("ENSEMBLE REMORQUAGE", "595 $", LabelX, 10),
      Row("Attelage de classe IV", "", IndentX, 8) }

\* repeated titles, a sub-line close to the line above, long lines
TitleRows ==
    { Row("Ensemble Remorquage", "1 250 $", LabelX, 10),
      Row("Attelage de classe IV", "", IndentX, 3),
      Row(LongLabel, "595 $", LabelX, 10),
      Row(LongDetail, "", LabelX, 8) }

\* lines that end the options section, and a price without a label
StopRows ==
    { Row("Sold to", "", LabelX, 10),
      Row("Sold separately", "", IndentX, 8),
      Row("Sold to FCA Canada", "", LabelX, 10),
      Row("", "250 $", LabelX, 10) }

\* charges and taxes, a label without letters
ChargeRows ==
    { Row("DESTINATION CHARGE", "1 895 $", LabelX, 10),
      Row(DestinationLine, "", LabelX, 10),
      Row("TAXE ACCISE FEDERALE", "25 $", LabelX, 10),
      Row("*", "100 $", LabelX, 10) }

\* a label that holds a number, a second section header
HeaderRows ==
    { Row("ROUES 20 PO", "1 250 $", LabelX, 10),
      Row("OPTIONAL EQUIPMENT", "", LabelX, 10) }

\* the rows of one document are the base rows and rows of one kind
RowThemes ==
    { BaseRows \cup TitleRows, BaseRows \cup StopRows, BaseRows \cup ChargeRows,
      BaseRows \cup HeaderRows }

RowPool == UNION RowThemes

SeqsUpTo(S, n) == UNION {[1..k -> S] : k \in 0..n}

BulkTitles == [i \in 1..BulkLen |-> Row("PNEUS " \o Char(UpperLetters, i), "100 $", LabelX, 10)]

BulkDetails == [i \in 1..BulkLen |-> Row("Tapis " \o Char(UpperLetters, i), "", IndentX, 8)]

\* a document: whether the section header is printed, and its rows
Docs ==
    {[anchor |-> a, rows |-> r] :
        a \in BOOLEAN, r \in UNION {SeqsUpTo(theme, MaxRows) : theme \in RowThemes}}
    \cup {[anchor |-> TRUE, rows |-> r \o b] :
            r \in SeqsUpTo(RowPool, 1), b \in {BulkTitles, BulkDetails}}

RECURSIVE SumDy(_, _)
SumDy(rows, i) == IF i = 0 THEN 0 ELSE rows[i].dy + SumDy(rows, i - 1)

RowY(rows, i) == AnchorY - SumDy(rows, i)

Span(text, x0, y0) == [text |-> text, x0 |-> x0, y0 |-> y0]

NonEmptyText(sp) == sp.text # ""

RECURSIVE FlattenRange(_, _, _)
FlattenRange(seqs, a, b) ==
    IF a > b THEN << >>
    ELSE IF a = b THEN seqs[a]
    ELSE LET m == (a + b) \div 2
         IN FlattenRange(seqs, a, m) \o FlattenRange(seqs, m + 1, b)

Flatten(seqs) == FlattenRange(seqs, 1, Len(seqs))

SectionHeader == "ACCESSOIRES OPTIONNELS"

VehicleHeader == "2023 RAM 1500 BIG HORN"

SpansOf(doc) ==
    << Span(VehicleHeader, 40, AnchorY + 100) >>
    \o (IF doc.anchor THEN << Span(SectionHeader, LabelX, AnchorY) >> ELSE << >>)
    \o SelectSeq(Flatten([i \in 1..Len(doc.rows) |->
                            << Span(doc.rows[i].label, doc.rows[i].x0, RowY(doc.rows, i)),
                               Span(doc.rows[i].price, PriceX, RowY(doc.rows, i)) >>]),
                 NonEmptyText)

NonEmptyLine(l) == l # ""

FlatOf(doc) ==
    << VehicleHeader >>
    \o (IF doc.anchor THEN << SectionHeader >> ELSE << >>)
    \o SelectSeq(Flatten([i \in 1..Len(doc.rows) |->
                            << doc.rows[i].label, doc.rows[i].price >>]),
                 NonEmptyLine)

OcrLine(row) ==
    (IF row.x0 >= DETAIL_INDENT_X THEN "    " ELSE "")
    \o row.label
    \o (IF row.label # "" /\ row.price # "" THEN "  " ELSE "")
    \o row.price

OcrOf(doc) ==
    << VehicleHeader >>
    \o (IF doc.anchor THEN << SectionHeader >> ELSE << >>)
    \o [i \in 1..Len(doc.rows) |-> OcrLine(doc.rows[i])]

----------------------------------------------------------------------------
(* Specification of extract_vin_from_text on its own *)

VinPrefixes == { "", "VIN: ", "RAM-1500-", "vin", "STOCK_" }

VinChunk1 == { "1C6", "1C" }

VinChunk2 == { "RR7LG5NS", "RR7IG5NS", "6RR7LG5NS" }

VinChunk3 == { "241151", "2411512" }

VinSeparators == { "", "-", EmDash, " " \o EnDash \o " " }

VinSuffixes == { "", " x", "\nRAM 1500" }

VinTexts ==
    { p \o c1 \o s1 \o c2 \o s2 \o c3 \o x :
        p \in VinPrefixes, c1 \in VinChunk1, s1 \in VinSeparators, c2 \in VinChunk2,
        s2 \in VinSeparators, c3 \in VinChunk3, x \in VinSuffixes }

NoDoc == spans = << >> /\ page_lines = << >> /\ ocr_lines = << >>

NoTierOut == out1 = << >> /\ out2 = << >> /\ out3 = << >>

NoArgs ==
    [title |-> "", price |-> "", mileage |-> "", stock |-> "", vin |-> "", dealer |-> "",
     year |-> "", transmission |-> "", drivetrain |-> ""]

NoRun == groups = << >> /\ calls = << >> /\ ad = << >>

NoMain ==
    /\ args = NoArgs /\ pdf_exists = FALSE /\ pytesseract = FALSE /\ rc = << >>
    /\ parses = FALSE /\ pdftoppm = FALSE /\ raised = ""

\* A file: whether pdfminer can parse it, whether it has a text layer, and the
\* sticker it shows.
NoFile == [parses |-> FALSE, text_layer |-> FALSE, doc |-> [anchor |-> FALSE, rows |-> << >>]]

\* A blob of bytes: its length, its first four bytes and, for a PDF, the file.
\* present = FALSE: no blob (None, or the download raised).
NoBlob == [present |-> FALSE, size |-> 0, head |-> "", file |-> NoFile]

NoRow == [status |-> "", storage_path |-> "", bytes |-> 0, reason |-> ""]

NoVehicle ==
    [vin |-> "", stock |-> "", title |-> "", url |-> "", price |-> "", price_int |-> << >>,
     mileage |-> "", km |-> "", km_int |-> << >>]

NoProd ==
    /\ USE_STICKER_AD = FALSE /\ v = NoVehicle
    /\ storage = [ok |-> NoBlob, bad |-> NoBlob, row |-> NoRow] /\ remote = NoBlob
    /\ res = "" /\ pdf_bytes = NoBlob /\ used = ""

NoConc == now = 0 /\ tmpfs = << >> /\ workers = << >>

NoVerdict == [junk |-> << >>, stop |-> << >>]

NoPred == sample = << >> /\ verdict = NoVerdict

NoCache == fetches = 0 /\ ncalls = 0

NoLock == lock = << >> /\ runs = << >>

NoSold == inventory = << >> /\ posts = << >> /\ run = << >> /\ runlog = << >>

NoBanner == base_text = "" /\ message = "" /\ stripped = << >> /\ marks = 0

NoCron == NoCache /\ NoLock /\ NoSold /\ NoBanner

InitVin ==
    /\ pc = "vin_call"
    /\ txt \in VinTexts \cup {""}
    /\ vin = ""
    /\ NoDoc /\ NoTierOut /\ NoRun /\ NoMain /\ NoProd /\ NoConc /\ NoPred /\ NoCron

ExtractVin ==
    /\ pc = "vin_call"
    /\ vin' = extract_vin_from_text(txt)
    /\ pc' = "vin_done"
    /\ UNCHANGED <<cronVars, predVars, concVars, txt, docVars, tierVars, mainVars, prodVars>>

NextVin == ExtractVin

SpecVin == InitVin /\ [][NextVin]_vars

----------------------------------------------------------------------------
(* Specification of the three tiers, each applied to its rendering of a document *)

InitTiers ==
    /\ pc = "tier1"
    /\ \E d \in Docs :
          /\ spans = SpansOf(d)
          /\ page_lines = FlatOf(d)
          /\ ocr_lines = OcrOf(d)
    /\ NoTierOut /\ NoRun /\ NoMain /\ NoProd /\ NoConc /\ NoPred /\ NoCron
    /\ txt = "" /\ vin = ""

RunTier1 ==
    /\ pc = "tier1"
    /\ out1' = extract_option_groups_from_spans(spans)
    /\ pc' = "tier2"
    /\ UNCHANGED <<cronVars, predVars, concVars, vinVars, docVars, out2, out3, mainVars, prodVars>>

RunTier2 ==
    /\ pc = "tier2"
    /\ out2' = extract_paid_options_from_text(page_lines)
    /\ pc' = "tier3"
    /\ UNCHANGED <<cronVars, predVars, concVars, vinVars, docVars, out1, out3, mainVars, prodVars>>

RunTier3 ==
    /\ pc = "tier3"
    /\ out3' = extract_option_groups_from_ocr(ocr_lines)
    /\ pc' = "tiers_done"
    /\ UNCHANGED <<cronVars, predVars, concVars, vinVars, docVars, out1, out2, mainVars, prodVars>>

NextTiers == RunTier1 \/ RunTier2 \/ RunTier3

SpecTiers == InitTiers /\ [][NextTiers]_vars

----------------------------------------------------------------------------
(* sticker_to_ad.build_ad *)

\* A character outside Latin-1 (an emoji, an arrow) is written as its name between
\* two currency signs.
Glyph(name) == "¤" \o name \o "¤"

JoinSep(seq, sep) == Join([i \in 1..Len(seq) |-> IF i = 1 THEN seq[i] ELSE sep \o seq[i]])

hybrid_keys ==
    << "phev", "plug-in", "plug in", "plug-in hybrid", "hybrid", "hybride",
       "vehicule hybride", "véhicule hybride", "vehicule hybride rechargeable",
       "véhicule hybride rechargeable", "vhr",
       "plug" \o EnDash \o "in hybrid vehicle", "plug-in hybrid vehicle" >>

detect_hybrid_from_text(text) == ContainsAny(Lower(text), hybrid_keys)

allowed_brands == << "ram", "dodge", "jeep", "chrysler", "alfa", "alfaromeo", "alfa romeo" >>

is_allowed_stellantis_brand(text) == ContainsAny(Lower(text), allowed_brands)

BASE_TAGS ==
    << "#Beauce", "#SaintGeorges", "#Quebec", "#AutoUsagée", "#VehiculeOccasion",
       "#DanielGiroux" >>

BRAND_TAGS ==
    << <<"ram", <<"#RAM", "#Truck", "#Pickup">> >>,
       <<"jeep", <<"#Jeep", "#4x4", "#SUV">> >>,
       <<"dodge", <<"#Dodge", "#Performance">> >>,
       <<"chrysler", <<"#Chrysler", "#Familiale">> >>,
       <<"alfa", <<"#AlfaRomeo", "#Performance">> >> >>

MODEL_TAGS ==
    << <<"hornet", <<"#Hornet", "#SUV", "#Performance">> >>,
       <<"challenger", <<"#Challenger", "#MuscleCar">> >>,
       <<"charger", <<"#Charger", "#MuscleCar">> >>,
       <<"durango", <<"#Durango", "#SUV">> >>,
       <<"promaster", <<"#ProMaster", "#Cargo", "#Van">> >>,
       <<"1500", <<"#RAM1500", "#Pickup">> >>,
       <<"2500", <<"#RAM2500", "#HeavyDuty">> >>,
       <<"wagoneer", <<"#Wagoneer", "#SUV", "#4x4">> >>,
       <<"wrangler", <<"#Wrangler", "#OffRoad", "#4x4">> >>,
       <<"grand cherokee", <<"#GrandCherokee", "#LuxurySUV", "#4x4">> >>,
       <<"gladiator", <<"#Gladiator", "#Pickup4x4">> >> >>

VARIANT_TAGS ==
    << <<"r/t", <<"#RT">> >>, <<" rt ", <<"#RT">> >>, <<"plus", <<"#Plus">> >>,
       <<"hybrid", <<"#Hybride">> >>, <<"plug-in", <<"#HybrideRechargeable">> >>,
       <<"phev", <<"#HybrideRechargeable">> >>, <<"awd", <<"#AWD">> >>,
       <<"4x4", <<"#4x4">> >>, <<"4wd", <<"#4x4">> >>, <<"v8", <<"#V8">> >> >>

MaxTags == 18

\* the tags of every entry of table whose key occurs in t
TagsMatching(table, t) ==
    Flatten([i \in 1..Len(table) |->
                IF Contains(t, table[i][1]) THEN table[i][2] ELSE << >>])

\* the tags of the first entry of table whose key occurs in t
TagsFirstMatching(table, t) ==
    LET hits == {i \in 1..Len(table) : Contains(t, table[i][1])}
    IN IF hits = {} THEN << >> ELSE table[Min(hits)][2]

choose_hashtags(title) ==
    LET t == Lower(title)
        tags == TagsFirstMatching(BRAND_TAGS, t) \o TagsMatching(MODEL_TAGS, t)
                \o TagsMatching(VARIANT_TAGS, t) \o BASE_TAGS
    IN JoinSep(Take(DedupByKey(tags, Lower), MaxTags), " ")

MaxRenderedDetails == 12

OptionTitlePrefix == Glyph("check") \o "  "

OptionDetailPrefix == "        " \o Glyph("bullet") \o " "

RenderedDetail(d) ==
    LET dd == Strip(d)
    IN IF dd = "" \/ looks_like_junk(dd) \/ is_price_only_text(dd) THEN << >>
       ELSE << OptionDetailPrefix \o dd >>

\* the lines of one group: nothing when its title is blank
RenderedGroup(g) ==
    IF Strip(g.title) = "" THEN << >>
    ELSE << OptionTitlePrefix \o Strip(g.title) >>
         \o Flatten(MapSeq(Take(g.details, MaxRenderedDetails), RenderedDetail))

StickerUrl(vin17) ==
    "https://www.chrysler.com/hostd/windowsticker/getWindowStickerPdf.do?vin=" \o vin17

\* the section "ACCESSOIRES OPTIONNELS" of the ad
RenderedOptions(options, vin17) ==
    IF options = << >> THEN << >>
    ELSE << Glyph("sparkles") \o " ACCESSOIRES OPTIONNELS (Window Sticker)", "" >>
         \o Flatten(MapSeq(options, RenderedGroup))
         \o << "", Glyph("pin") \o " Le reste des détails est dans le Window Sticker :", "" >>
         \o << IF vin17 # "" THEN StickerUrl(vin17)
               ELSE "(VIN introuvable " \o EmDash \o " ajoute --vin pour générer le lien)" >>
         \o << "" >>

IfSet(value, line) == IF value # "" THEN << line >> ELSE << >>

\* "\n".join(lines).strip(): the lines without leading and trailing blank lines
StripLines(lines) ==
    LET full == {i \in 1..Len(lines) : Strip(lines[i]) # ""}
    IN IF full = {} THEN << >>
       ELSE [i \in 1..(Max(full) - Min(full) + 1) |->
               LET l == lines[Min(full) + i - 1]
               IN IF Max(full) = Min(full) THEN Strip(l)
                  ELSE IF i = 1 THEN LStrip(l, WsChars)
                  ELSE IF i = Max(full) - Min(full) + 1 THEN RStrip(l, WsChars)
                  ELSE l]

\* build_ad's text, line by line; a is the record of its arguments
build_ad(a) ==
    LET head ==
            << Glyph("fire") \o " " \o Strip(a.title) \o " " \o Glyph("fire"), "" >>
            \o IfSet(a.price, Glyph("boom") \o " " \o a.price \o " " \o Glyph("boom"))
            \o IfSet(a.mileage, Glyph("chart") \o " Kilométrage : " \o a.mileage)
            \o IfSet(a.dealer, Glyph("pin") \o " " \o a.dealer)
            \o << "" >>
            \o (IF a.is_hybrid
                THEN << Glyph("zap") \o " Véhicule hybride rechargeable (PHEV)", "" >>
                ELSE << >>)
        details ==
            IfSet(a.stock, Glyph("check") \o " Inventaire : " \o a.stock)
            \o IfSet(a.year, Glyph("check") \o " Année : " \o a.year)
            \o IfSet(a.vin, Glyph("check") \o " VIN : " \o a.vin)
            \o IfSet(a.transmission, Glyph("check") \o " Transmission : " \o a.transmission)
            \o IfSet(a.drivetrain, Glyph("check") \o " Entraînement : " \o a.drivetrain)
        tail ==
            << Glyph("repeat") \o " J" \o CurlyApostrophe \o "accepte les échanges : "
                  \o Glyph("car") \o " auto " \o Bullet \o " " \o Glyph("motorcycle")
                  \o " moto " \o Bullet \o " " \o Glyph("boat") \o " bateau " \o Bullet
                  \o " " \o Glyph("pickup") \o " VTT " \o Bullet \o " " \o Glyph("flag")
                  \o " côte-à-côte",
               Glyph("camera") \o " Envoie-moi les photos + infos de ton échange "
                  \o "(année / km / paiement restant) " \o Glyph("arrow")
                  \o " je te reviens vite.",
               "",
               Glyph("wave") \o " Publiée par Daniel Giroux " \o EmDash
                  \o " je réponds vite (pas un robot, promis " \o Glyph("smile") \o ")",
               Glyph("pin") \o " Saint-Georges (Beauce) | Prise de possession rapide possible",
               Glyph("page") \o " Vente commerciale " \o EmDash \o " 2 taxes applicables",
               Glyph("check") \o " Inspection complète " \o EmDash
                  \o " véhicule propre & prêt à partir.",
               "",
               Glyph("envelope") \o " Écris-moi en privé " \o EmDash \o " ou texte direct",
               Glyph("phone") \o " Daniel Giroux " \o EmDash \o " 418-222-3939",
               "",
               choose_hashtags(Strip(a.title)) >>
    IN StripLines(
          head
          \o (IF details # << >> THEN << Glyph("car") \o " DÉTAILS" >> \o details \o << "" >>
              ELSE << >>)
          \o RenderedOptions(a.options, a.vin)
          \o tail)

----------------------------------------------------------------------------
(* Specification of sticker_to_ad.main *)

\* The arguments come from the dealer's site: title, price, mileage and stock are
\* given; --vin is given or left out.
ArgsPool ==
    {[title |-> "RAM 1500 Big Horn 2023", price |-> "45 995 $", mileage |-> "35 000 km",
      stock |-> "06213", vin |-> x,
      dealer |-> "Kennebec Dodge Chrysler " \o EmDash \o " Saint-Georges (Beauce)",
      year |-> "2023", transmission |-> "Automatique", drivetrain |-> "4x4"] :
        x \in {"", "1C6RR7LG5NS241151"}}

MainRowPool ==
    { Row("ENSEMBLE REMORQUAGE", "595 $", LabelX, 10),
      Row("Attelage de classe IV", "", IndentX, 8),
      Row("*", "100 $", LabelX, 10),
      Row(LongLabel, "595 $", LabelX, 10) }

MainDocs == {[anchor |-> a, rows |-> r] : a \in BOOLEAN, r \in SeqsUpTo(MainRowPool, MaxRows)}

VehicleHeaders == { VehicleHeader, "2023 FORD F-150 XLT" }

\* 0: the columns stand where Tier 1 looks for them; otherwise another layout,
\* whose columns stand further left
ColumnShifts == { 0, -150 }

ShiftSpans(sps, dx) == [i \in 1..Len(sps) |-> [sps[i] EXCEPT !.x0 = @ + dx]]

\* what pdfminer's extract_text gives for a document without a text layer
BlankText == << " " >>

PageText(lines) == JoinSep(lines, "\n")

\* if not groups and page_txt.strip()
Tier2WantedWhateverFound(gs, page_txt) == Strip(page_txt) # ""

Tier2Wanted(gs, page_txt) == gs = << >> /\ Strip(page_txt) # ""

\* if not groups
Tier3Wanted(gs) == gs = << >>

\* ocr_extract_text with the toolchain taken for granted
ocr_extract_text_unguarded(imported, converted, lines) == StripLines(lines)

\* "" (no line) without pytesseract or PIL, or when pdftoppm fails; otherwise what
\* is recognised on the pages, stripped
ocr_extract_text(imported, converted, lines) ==
    IF ~imported THEN << >>
    ELSE IF ~converted THEN << >>
    ELSE StripLines(lines)

\* the file and the machine main runs on: whether pdfminer parses the file,
\* whether pytesseract and PIL were imported, whether pdftoppm succeeds, and
\* whether OCR recognises any text on the pages
MainEnv(p, i, c, r) == [parses |-> p, pytesseract |-> i, pdftoppm |-> c, recognised |-> r]

MainEnvs ==
    { MainEnv(TRUE, TRUE, TRUE, TRUE), MainEnv(TRUE, FALSE, TRUE, TRUE),
      MainEnv(TRUE, TRUE, FALSE, TRUE), MainEnv(TRUE, TRUE, TRUE, FALSE),
      MainEnv(FALSE, TRUE, TRUE, TRUE) }

\* what pdfminer raises on a file it cannot parse
PdfminerError == "PDFSyntaxError"

GroupOfFlat(x) == [title |-> x, price |-> "", details |-> << >>]

InitMain ==
    /\ pc = "main_start"
    /\ \E e \in MainEnvs :
          /\ parses = e.parses /\ pytesseract = e.pytesseract /\ pdftoppm = e.pdftoppm
          /\ IF ~e.parses
             THEN spans = << >> /\ page_lines = << >> /\ ocr_lines = << >>
             ELSE \E d \in MainDocs, text_layer \in BOOLEAN, dx \in ColumnShifts,
                     h \in VehicleHeaders :
                     /\ spans = IF text_layer
                                THEN ShiftSpans([SpansOf(d) EXCEPT ![1].text = h], dx)
                                ELSE << >>
                     /\ page_lines = IF text_layer THEN [FlatOf(d) EXCEPT ![1] = h]
                                     ELSE BlankText
                     /\ ocr_lines = IF e.recognised THEN [OcrOf(d) EXCEPT ![1] = h]
                                    ELSE BlankText
    /\ args \in ArgsPool
    /\ pdf_exists \in BOOLEAN
    /\ rc = << >> /\ raised = ""
    /\ NoTierOut /\ NoRun /\ NoProd /\ NoConc /\ NoPred /\ NoCron
    /\ txt = "" /\ vin = ""

\* if not pdf_path.exists(): return 2
MainStart ==
    /\ pc = "main_start"
    /\ IF pdf_exists THEN pc' = "main_spans" /\ rc' = rc
       ELSE pc' = "main_done" /\ rc' = << 2 >>
    /\ UNCHANGED <<cronVars, predVars, concVars, vinVars, docVars, tierVars, args, pdf_exists, pytesseract, parses, pdftoppm, raised, groups, calls,
                   ad, prodVars>>

\* spans = extract_spans_pdfminer(unlocked, max_pages=2): extract_pages raises on
\* a file it cannot parse, and neither extract_spans_pdfminer nor main catches
MainExtractSpans ==
    /\ pc = "main_spans"
    /\ IF parses THEN pc' = "main_brand" /\ raised' = raised
       ELSE pc' = "main_done" /\ raised' = PdfminerError
    /\ UNCHANGED <<cronVars, predVars, concVars, vinVars, docVars, tierVars, args, pdf_exists, pytesseract, parses,
                   pdftoppm, groups, calls, ad, rc, prodVars>>

\* the brand filter, then the VIN read from the text
MainBrandFilter ==
    /\ pc = "main_brand"
    /\ LET page_txt == PageText(page_lines)
       IN IF Strip(page_txt) # "" /\ ~is_allowed_stellantis_brand(page_txt)
          THEN pc' = "main_done" /\ rc' = << 0 >> /\ UNCHANGED vinVars
          ELSE /\ pc' = "main_tier1" /\ rc' = rc
               /\ txt' = page_txt
               /\ vin' = extract_vin_from_text(page_txt)
    /\ UNCHANGED <<cronVars, predVars, concVars, docVars, tierVars, args, pdf_exists, pytesseract, parses, pdftoppm, raised, groups, calls, ad,
                   prodVars>>

MainTier1 ==
    /\ pc = "main_tier1"
    /\ out1' = extract_option_groups_from_spans(spans)
    /\ groups' = out1'
    /\ calls' = Append(calls, "tier1")
    /\ pc' = "main_tier2"
    /\ UNCHANGED <<cronVars, predVars, concVars, vinVars, docVars, out2, out3, args, pdf_exists, pytesseract, parses, pdftoppm, raised, ad, rc,
                   prodVars>>

MainTier2 ==
    /\ pc = "main_tier2"
    /\ IF Tier2Wanted(groups, PageText(page_lines))
       THEN /\ out2' = extract_paid_options_from_text(page_lines)
            /\ groups' = MapSeq(out2', GroupOfFlat)
            /\ calls' = Append(calls, "tier2")
       ELSE UNCHANGED <<out2, groups, calls>>
    /\ pc' = "main_tier3"
    /\ UNCHANGED <<cronVars, predVars, concVars, vinVars, docVars, out1, out3, args, pdf_exists, pytesseract, parses, pdftoppm, raised, ad, rc,
                   prodVars>>

MainTier3 ==
    /\ pc = "main_tier3"
    /\ IF Tier3Wanted(groups)
       THEN LET ocr_txt == ocr_extract_text(pytesseract, pdftoppm, ocr_lines)
            IN /\ calls' = Append(calls, "tier3")
               /\ IF ocr_txt # << >>
                  THEN /\ out3' = extract_option_groups_from_ocr(ocr_txt)
                       /\ groups' = out3'
                  ELSE UNCHANGED <<out3, groups>>
       ELSE UNCHANGED <<out3, groups, calls>>
    /\ pc' = "main_build"
    /\ UNCHANGED <<cronVars, predVars, concVars, vinVars, docVars, out1, out2, args, pdf_exists, pytesseract, parses, pdftoppm, raised, ad, rc,
                   prodVars>>

\* build_ad, and the text written to the output file
MainBuildAd ==
    /\ pc = "main_build"
    /\ ad' = build_ad([title |-> args.title, price |-> Strip(args.price),
                       mileage |-> Strip(args.mileage),
                       stock |-> RemoveChars(Strip(args.stock), WsChars),
                       vin |-> IF Strip(args.vin) # "" THEN Strip(args.vin) ELSE vin,
                       options |-> groups,
                       is_hybrid |-> detect_hybrid_from_text(txt),
                       dealer |-> Strip(args.dealer), year |-> Strip(args.year),
                       transmission |-> Strip(args.transmission),
                       drivetrain |-> Strip(args.drivetrain)])
    /\ rc' = << 0 >>
    /\ pc' = "main_done"
    /\ UNCHANGED <<cronVars, predVars, concVars, vinVars, docVars, tierVars, args, pdf_exists, pytesseract, parses, pdftoppm, raised, groups, calls,
                   prodVars>>

NextMain ==
    MainStart \/ MainExtractSpans \/ MainBrandFilter \/ MainTier1 \/ MainTier2 \/ MainTier3 \/ MainBuildAd

SpecMain == InitMain /\ [][NextMain]_vars

----------------------------------------------------------------------------
(* ad_builder.build_ad, imported by runner_cron_prod as build_ad_from_options *)

Digits == "0123456789"

DigitValue(c) == CHOOSE d \in 0..9 : Char(Digits, d + 1) = c

\* int(s) for a non-empty string of digits
RECURSIVE StrToInt(_)
StrToInt(s) ==
    IF s = "" THEN 0
    ELSE 10 * StrToInt(SubSeq(s, 1, Len(s) - 1)) + DigitValue(Char(s, Len(s)))

\* str(n) for n >= 0
RECURSIVE IntToStr(_)
IntToStr(n) ==
    IF n < 10 THEN Char(Digits, n + 1)
    ELSE IntToStr(n \div 10) \o Char(Digits, (n % 10) + 1)

\* the three digits of n % 1000
Pad3(n) ==
    Char(Digits, ((n \div 100) % 10) + 1) \o Char(Digits, ((n \div 10) % 10) + 1)
    \o Char(Digits, (n % 10) + 1)

\* f"{n:,}".replace(",", " ")
RECURSIVE _fmt_int(_)
_fmt_int(n) == IF n < 1000 THEN IntToStr(n) ELSE _fmt_int(n \div 1000) \o " " \o Pad3(n)

_digits_only(s) == KeepChars(s, DigitChars)

MinPrice == 1000

MaxPrice == 500000

MaxKm == 600000

normalize_price(price) ==
    LET digits == _digits_only(Strip(price))
    IN IF digits = "" THEN ""
       ELSE IF StrToInt(digits) < MinPrice \/ StrToInt(digits) > MaxPrice THEN ""
       ELSE _fmt_int(StrToInt(digits)) \o " $"

\* int(round(n * 1.60934)), halves to the even neighbour
\* (n * 160934 is computed by parts, n = 100000 h + 1000 a + b, to stay within
\* 32 bits)
MilesToKm(n) ==
    LET h == n \div 100000
        a == (n % 100000) \div 1000
        b == n % 1000
        q == h * 160934 + a * 1609 + (a * 34000 + b * 160934) \div 100000
        r == (a * 34000 + b * 160934) % 100000
    IN IF r > 50000 \/ (r = 50000 /\ q % 2 = 1) THEN q + 1 ELSE q

normalize_km(mileage) ==
    LET raw == Lower(Strip(mileage))
        digits == _digits_only(raw)
        n == StrToInt(digits)
        is_miles == \/ Contains(raw, " mi")
                    \/ (Len(raw) >= 2 /\ SubSeq(raw, Len(raw) - 1, Len(raw)) = "mi")
                    \/ Contains(raw, "miles") \/ Contains(raw, "mile")
    IN IF digits = "" THEN ""
       ELSE IF n > MaxKm THEN ""
       ELSE _fmt_int(IF is_miles THEN MilesToKm(n) ELSE n) \o " km"

BLACKLIST_TERMS ==
    << "ECOPRELEVEMENT", "ECO PRELEVEMENT", "ECO-PRÉLÈVEMENT", "ÉCOPRÉLÈVEMENT",
       "ECOPRÉLÈVEMENT", "FEDERAL", "FÉDÉRAL", "TAX", "TAXE", "FEE", "FRAIS", "LEVY",
       "PRÉLÈVEMENT", "PRELEVEMENT", "DESTINATION", "EXPEDITION", "EXPÉDITION", "MSRP",
       "PRIX TOTAL", "TOTAL PRICE" >>

is_blacklisted_line(s) == s = "" \/ ContainsAny(Upper(s), BLACKLIST_TERMS)

MaxDetailsKept == 6

NotBlacklisted(s) == ~is_blacklisted_line(s)

GroupNotBlacklisted(g) == ~is_blacklisted_line(Strip(g.title))

StrippedTitleKey(g) == Lower(Strip(g.title))

ProdRenderedDetail(dd) == OptionDetailPrefix \o dd

\* one group of the production ad: its title, then at most 6 distinct details
ProdRenderedGroup(g) ==
    << OptionTitlePrefix \o Strip(g.title) >>
    \o MapSeq(Take(DedupByKey(SelectSeq(MapSeq(g.details, Strip), NotBlacklisted), Lower),
                   MaxDetailsKept),
              ProdRenderedDetail)

build_ad_from_options(title, price, mileage, stock, vin17, options, vehicle_url) ==
    LET t == Strip(title)
        s == Upper(Strip(stock))
        vv == Upper(Strip(vin17))
        p == normalize_price(price)
        m == normalize_km(mileage)
        kept == DedupByKey(SelectSeq(options, GroupNotBlacklisted), StrippedTitleKey)
    IN StripLines(
          (IF t # "" THEN << Glyph("fire") \o " " \o t \o " " \o Glyph("fire"), "" >>
           ELSE << >>)
          \o IfSet(p, Glyph("boom") \o " " \o p \o " " \o Glyph("boom"))
          \o IfSet(m, Glyph("chart") \o " Kilométrage : " \o m)
          \o IfSet(s, Glyph("receipt") \o " Stock : " \o s)
          \o << "" >>
          \o (IF options = << >> THEN << >>
              ELSE << Glyph("sparkles") \o " ACCESSOIRES OPTIONNELS (Window Sticker)", "" >>
                   \o Flatten(MapSeq(kept, ProdRenderedGroup))
                   \o << "", Glyph("pin")
                               \o " Le reste des détails est dans le Window Sticker :", "" >>
                   \o << IF vv # "" THEN StickerUrl(vv)
                         ELSE "(VIN introuvable " \o EmDash
                              \o " lien Window Sticker non généré)" >>
                   \o << "" >>)
          \o (IF vehicle_url # ""
              THEN << Glyph("link") \o " Fiche complète :", vehicle_url, "" >>
              ELSE << >>)
          \o << Glyph("repeat") \o " J" \o CurlyApostrophe \o "accepte les échanges : "
                   \o Glyph("car") \o " auto " \o Bullet \o " " \o Glyph("motorcycle")
                   \o " moto " \o Bullet \o " " \o Glyph("boat") \o " bateau " \o Bullet
                   \o " " \o Glyph("pickup") \o " VTT " \o Bullet \o " " \o Glyph("flag")
                   \o " côte-à-côte",
                Glyph("camera") \o " Envoie-moi les photos + infos de ton échange "
                   \o "(année / km / paiement restant) " \o Glyph("arrow")
                   \o " je te reviens vite." >>)

----------------------------------------------------------------------------
(* Specification of runner_cron_prod._build_ad_text *)

MinPdfBytes == 10240

_is_pdf_ok(b) == b.present /\ b.size >= MinPdfBytes /\ b.head = "%PDF"

stellantis_prefixes == << "1C", "2C", "3C", "ZAC", "ZFA" >>

_is_stellantis_vin(vin17) ==
    LET u == Upper(Strip(vin17))
    IN Len(u) = VinLen
       /\ \E k \in 1..Len(stellantis_prefixes) : StartsWith(u, stellantis_prefixes[k])

EmptyBlob == [present |-> TRUE, size |-> 0, head |-> "", file |-> NoFile]

OneByteBlob == [present |-> TRUE, size |-> 1, head |-> "x", file |-> NoFile]

HtmlErrorBlob == [present |-> TRUE, size |-> 20000, head |-> "<htm", file |-> NoFile]

ShortPdfBlob == [present |-> TRUE, size |-> MinPdfBytes - 1, head |-> "%PDF", file |-> NoFile]

PdfBlob(f) == [present |-> TRUE, size |-> MinPdfBytes, head |-> "%PDF", file |-> f]

ok_path(vin17) == "pdf_ok/" \o vin17 \o ".pdf"

bad_path(vin17) == "pdf_bad/" \o vin17 \o ".pdf"

StickerRow(status, path, data, reason) ==
    [status |-> status, storage_path |-> path, bytes |-> data.size, reason |-> reason]

\* the same function without the upload of the rejected bytes to pdf_bad/
ensure_sticker_cached_without_bad_marker(st, rem, vin_arg) ==
    LET vin17 == Upper(Strip(vin_arg))
        fetched == IF rem.present THEN rem ELSE EmptyBlob
        blob_store == IF fetched.size > 0 THEN fetched ELSE OneByteBlob
    IN IF Len(vin17) # VinLen THEN [status |-> "skip", path |-> "", storage |-> st]
       ELSE IF _is_pdf_ok(st.ok)
       THEN [status |-> "ok", path |-> ok_path(vin17),
             storage |-> [st EXCEPT !.row = StickerRow("ok", ok_path(vin17), st.ok, "")]]
       ELSE IF st.bad.present /\ st.bad.size > 0
       THEN [status |-> "bad", path |-> bad_path(vin17),
             storage |-> [st EXCEPT !.row = StickerRow("bad", bad_path(vin17), st.bad,
                                                       "cached_bad")]]
       ELSE IF _is_pdf_ok(fetched)
       THEN [status |-> "ok", path |-> ok_path(vin17),
             storage |-> [st EXCEPT !.ok = fetched,
                                    !.row = StickerRow("ok", ok_path(vin17), fetched, "")]]
       ELSE [status |-> "bad", path |-> bad_path(vin17),
             storage |-> [st EXCEPT !.row = StickerRow("bad", bad_path(vin17), blob_store,
                                                       "invalid_pdf")]]

\* whether the call gets as far as SESSION.get(pdf_url): the VIN has 17
\* characters, pdf_ok/ holds no valid PDF and pdf_bad/ holds nothing
FetchesRemote(st, vin_arg) ==
    /\ Len(Upper(Strip(vin_arg))) = VinLen
    /\ ~_is_pdf_ok(st.ok)
    /\ ~(st.bad.present /\ st.bad.size > 0)

\* the status and path returned, and the bucket and table afterwards
ensure_sticker_cached(st, rem, vin_arg) ==
    LET vin17 == Upper(Strip(vin_arg))
        fetched == IF rem.present THEN rem ELSE EmptyBlob
        blob_store == IF fetched.size > 0 THEN fetched ELSE OneByteBlob
    IN IF Len(vin17) # VinLen THEN [status |-> "skip", path |-> "", storage |-> st]
       ELSE IF _is_pdf_ok(st.ok)
       THEN [status |-> "ok", path |-> ok_path(vin17),
             storage |-> [st EXCEPT !.row = StickerRow("ok", ok_path(vin17), st.ok, "")]]
       ELSE IF st.bad.present /\ st.bad.size > 0
       THEN [status |-> "bad", path |-> bad_path(vin17),
             storage |-> [st EXCEPT !.row = StickerRow("bad", bad_path(vin17), st.bad,
                                                       "cached_bad")]]
       ELSE IF _is_pdf_ok(fetched)
       THEN [status |-> "ok", path |-> ok_path(vin17),
             storage |-> [st EXCEPT !.ok = fetched,
                                    !.row = StickerRow("ok", ok_path(vin17), fetched, "")]]
       ELSE [status |-> "bad", path |-> bad_path(vin17),
             storage |-> [st EXCEPT !.bad = blob_store,
                                    !.row = StickerRow("bad", bad_path(vin17), blob_store,
                                                       "invalid_pdf")]]

\* extract_spans_pdfminer on the temporary copy of the blob
SpansOfFile(f) == IF f.text_layer THEN SpansOf(f.doc) ELSE << >>

HasTitle(g) == Strip(g.title) # ""

\* whether _extract_options_from_sticker_bytes gets as far as Tier 1
ReachesTier1(b) == _is_pdf_ok(b) /\ b.file.parses

_extract_options_from_sticker_bytes(b) ==
    IF ~_is_pdf_ok(b) THEN << >>
    ELSE IF ~b.file.parses THEN << >>
    ELSE SelectSeq(extract_option_groups_from_spans(SpansOfFile(b.file)), HasTitle)

TextEngineReply == << "(texte du text-engine)" >>

\* generate_facebook_text: the service's text, or the fallback after three failures
generate_facebook_text(up, vehicle) ==
    IF up THEN TextEngineReply
    ELSE << Glyph("fire") \o " " \o vehicle.title \o " " \o Glyph("fire"), "",
            Glyph("money") \o " " \o vehicle.price,
            Glyph("chart") \o " " \o vehicle.mileage,
            Glyph("receipt") \o " Stock : " \o vehicle.stock,
            Glyph("numbers") \o " VIN : " \o vehicle.vin, "",
            vehicle.url, "",
            Glyph("warning") \o " Mode secours (text-engine indisponible)" >>

ProdRowPool ==
    { Row("ENSEMBLE REMORQUAGE", "595 $", LabelX, 10),
      Row("Attelage de classe IV", "", IndentX, 8),
      Row("TAXE ACCISE FEDERALE", "25 $", LabelX, 10),
      Row("TAXE DE LUXE", "595 $", LabelX, 10) }

\* the files a sticker blob can be: a parsed PDF with or without text layer, or
\* one pdfminer cannot parse
ProdFiles ==
    {[parses |-> TRUE, text_layer |-> tl, doc |-> [anchor |-> TRUE, rows |-> r]] :
        tl \in BOOLEAN, r \in SeqsUpTo(ProdRowPool, MaxRows)}
    \cup {NoFile}

VehiclePool ==
    {[vin |-> x, stock |-> "06213", title |-> "RAM 1500 Big Horn 2023",
      url |-> "https://www.kennebecdodge.ca/fr/inventaire/06213",
      price |-> pm[1], price_int |-> pm[2], mileage |-> pm[3], km |-> "", km_int |-> pm[4]] :
        x \in {"1c6rr7lg5ns241151 ", "5YJ3E1EA7KF317000", ""},
        pm \in {<<"45 995 $", << >>, "35 000 km", << >>>>,
                <<"", <<45995>>, "", <<35000>>>>}}

InitProd ==
    /\ pc = "prod_start"
    /\ USE_STICKER_AD \in BOOLEAN
    /\ v \in VehiclePool
    /\ \E f \in ProdFiles :
          /\ storage \in {[ok |-> o, bad |-> b, row |-> NoRow] :
                            o \in {NoBlob, ShortPdfBlob, PdfBlob(f)},
                            b \in {NoBlob, HtmlErrorBlob}}
          /\ remote \in {NoBlob, EmptyBlob, HtmlErrorBlob, PdfBlob(f)}
    /\ res = "" /\ pdf_bytes = NoBlob /\ used = ""
    /\ NoDoc /\ NoTierOut /\ NoRun /\ NoMain /\ NoConc /\ NoPred /\ NoCron
    /\ txt = "" /\ vin = ""

\* if USE_STICKER_AD and _is_stellantis_vin(vin)
ProdStart ==
    /\ pc = "prod_start"
    /\ pc' = IF USE_STICKER_AD /\ _is_stellantis_vin(v.vin) THEN "prod_cache"
             ELSE "prod_engine"
    /\ UNCHANGED <<cronVars, predVars, concVars, vinVars, docVars, tierVars, mainVars, prodVars>>

ProdEnsureCached ==
    /\ pc = "prod_cache"
    /\ LET r == ensure_sticker_cached(storage, remote, Upper(Strip(v.vin)))
       IN /\ storage' = r.storage
          /\ res' = r.status
          /\ pc' = IF r.status = "ok" THEN "prod_download" ELSE "prod_engine"
    /\ UNCHANGED <<cronVars, predVars, concVars, vinVars, docVars, tierVars, mainVars, USE_STICKER_AD, v, remote,
                   pdf_bytes, used>>

\* sb.storage.from_(STICKERS_BUCKET).download(pdf_path)
ProdDownload ==
    /\ pc = "prod_download"
    /\ pdf_bytes' = storage.ok
    /\ pc' = "prod_extract"
    /\ UNCHANGED <<cronVars, predVars, concVars, vinVars, docVars, tierVars, mainVars, USE_STICKER_AD, v, storage, remote,
                   res, used>>

\* a call to the bucket or to the table raises: except Exception, then the text
\* engine
ProdException ==
    /\ pc \in {"prod_cache", "prod_download"}
    /\ pc' = "prod_engine"
    /\ UNCHANGED <<cronVars, predVars, concVars, vinVars, docVars, tierVars, mainVars, prodVars>>

\* options = _extract_options_from_sticker_bytes(pdf_bytes)
ProdExtractOptions ==
    /\ pc = "prod_extract"
    /\ groups' = _extract_options_from_sticker_bytes(pdf_bytes)
    /\ IF ReachesTier1(pdf_bytes)
       THEN /\ spans' = SpansOfFile(pdf_bytes.file)
            /\ out1' = extract_option_groups_from_spans(spans')
            /\ calls' = Append(calls, "tier1")
       ELSE UNCHANGED <<spans, out1, calls>>
    /\ pc' = IF groups' # << >> THEN "prod_build" ELSE "prod_engine"
    /\ UNCHANGED <<cronVars, predVars, concVars, vinVars, page_lines, ocr_lines, out2, out3, args, pdf_exists,
                   pytesseract, parses, pdftoppm, raised, ad, rc, prodVars>>

ProdPrice ==
    IF Strip(v.price) # "" THEN Strip(v.price)
    ELSE IF v.price_int # << >> THEN IntToStr(v.price_int[1]) \o " $" ELSE ""

ProdMileage ==
    IF v.mileage # "" THEN Strip(v.mileage)
    ELSE IF v.km # "" THEN Strip(v.km)
    ELSE IF v.km_int # << >> THEN IntToStr(v.km_int[1]) \o " km" ELSE ""

ProdBuildAd ==
    /\ pc = "prod_build"
    /\ ad' = build_ad_from_options(Strip(v.title), ProdPrice, ProdMileage,
                                   Upper(Strip(v.stock)), Upper(Strip(v.vin)), groups,
                                   Strip(v.url))
    /\ used' = "sticker"
    /\ pc' = "prod_done"
    /\ UNCHANGED <<cronVars, predVars, concVars, vinVars, docVars, tierVars, args, pdf_exists, pytesseract, parses, pdftoppm, raised, groups, calls,
                   rc, USE_STICKER_AD, v, storage, remote, res, pdf_bytes>>

\* return generate_facebook_text(TEXT_ENGINE_URL, slug, event, v)
ProdTextEngine ==
    /\ pc = "prod_engine"
    /\ \E up \in BOOLEAN : ad' = generate_facebook_text(up, v)
    /\ used' = "text_engine"
    /\ pc' = "prod_done"
    /\ UNCHANGED <<cronVars, predVars, concVars, vinVars, docVars, tierVars, args, pdf_exists, pytesseract, parses, pdftoppm, raised, groups, calls,
                   rc, USE_STICKER_AD, v, storage, remote, res, pdf_bytes>>

NextProd ==
    \/ ProdStart \/ ProdEnsureCached \/ ProdDownload \/ ProdException
    \/ ProdExtractOptions \/ ProdBuildAd \/ ProdTextEngine

SpecProd == InitProd /\ [][NextProd]_vars

----------------------------------------------------------------------------
(* Specification of concurrent calls of _extract_options_from_sticker_bytes *)

\* Each invocation copies its blob to /tmp/sticker_<int(time.time())>.pdf, has
\* pdfminer read that file, and unlinks it.  The invocations share /tmp and the
\* clock.

MaxClock == 1

Invocations == 1..2

ConcRows ==
    { << Row("ENSEMBLE REMORQUAGE", "595 $", LabelX, 10) >>,
      << Row("TAPIS PROTECTEURS", "150 $", LabelX, 10) >>,
      << Row("ENSEMBLE REMORQUAGE", "595 $", LabelX, 10),
         Row("Attelage de classe IV", "", IndentX, 8) >> }

ConcFiles ==
    {[parses |-> TRUE, text_layer |-> TRUE, doc |-> [anchor |-> TRUE, rows |-> r]] :
        r \in ConcRows}

ConcBlobs == {PdfBlob(f) : f \in ConcFiles} \cup {ShortPdfBlob}

Worker(at, b, tmp, result) == [pc |-> at, pdf_bytes |-> b, tmp |-> tmp, groups |-> result]

InitConc ==
    /\ pc = "conc"
    /\ now = 0
    /\ tmpfs = [s \in 0..MaxClock |-> NoBlob]
    /\ \E a \in ConcBlobs, b \in ConcBlobs :
          /\ a # b
          /\ workers = << Worker("check", a, << >>, << >>), Worker("check", b, << >>, << >>) >>
    /\ NoDoc /\ NoTierOut /\ NoRun /\ NoMain /\ NoProd /\ NoPred /\ NoCron
    /\ txt = "" /\ vin = ""

\* the clock passes to the next second
ConcTick ==
    /\ now < MaxClock
    /\ now' = now + 1
    /\ UNCHANGED <<cronVars, predVars, pc, vinVars, docVars, tierVars, mainVars, prodVars, tmpfs, workers>>

\* if not _is_pdf_ok(pdf_bytes): return []; tmp = Path("/tmp") / f"sticker_{int(time.time())}.pdf"
ConcName(w) ==
    /\ workers[w].pc = "check"
    /\ workers' = [workers EXCEPT ![w] =
                     IF _is_pdf_ok(@.pdf_bytes) THEN [@ EXCEPT !.pc = "write", !.tmp = << now >>]
                     ELSE [@ EXCEPT !.pc = "done"]]
    /\ UNCHANGED <<cronVars, predVars, pc, vinVars, docVars, tierVars, mainVars, prodVars, now, tmpfs>>

\* tmp.write_bytes(pdf_bytes)
ConcWrite(w) ==
    /\ workers[w].pc = "write"
    /\ tmpfs' = [tmpfs EXCEPT ![workers[w].tmp[1]] = workers[w].pdf_bytes]
    /\ workers' = [workers EXCEPT ![w].pc = "parse"]
    /\ UNCHANGED <<cronVars, predVars, pc, vinVars, docVars, tierVars, mainVars, prodVars, now>>

\* extract_spans_pdfminer(tmp) and Tier 1 on what the file holds now; a missing
\* file raises, and except Exception returns []
ConcParse(w) ==
    /\ workers[w].pc = "parse"
    /\ LET f == tmpfs[workers[w].tmp[1]]
       IN workers' = [workers EXCEPT
                        ![w].pc = "unlink",
                        ![w].groups =
                           IF ~f.present \/ ~f.file.parses THEN << >>
                           ELSE SelectSeq(extract_option_groups_from_spans(SpansOfFile(f.file)),
                                          HasTitle)]
    /\ UNCHANGED <<cronVars, predVars, pc, vinVars, docVars, tierVars, mainVars, prodVars, now, tmpfs>>

\* finally: tmp.unlink(missing_ok=True)
ConcUnlink(w) ==
    /\ workers[w].pc = "unlink"
    /\ tmpfs' = [tmpfs EXCEPT ![workers[w].tmp[1]] = NoBlob]
    /\ workers' = [workers EXCEPT ![w].pc = "done"]
    /\ UNCHANGED <<cronVars, predVars, pc, vinVars, docVars, tierVars, mainVars, prodVars, now>>

NextConc ==
    \/ ConcTick
    \/ \E w \in Invocations : ConcName(w) \/ ConcWrite(w) \/ ConcParse(w) \/ ConcUnlink(w)

SpecConc == InitConc /\ [][NextConc]_vars

----------------------------------------------------------------------------
(* Specification of looks_like_junk and is_hard_stop_detail on pairs of lines *)

\* the letters that carry a diacritic, and each one's letter without it
AccentedLetters == "ÀÂÇÈÉÊËÎÏÔÙÛàâçèéêëîïôùû"

PlainLetters == "AACEEEEIIOUUaaceeeeiiouu"

UnaccentTable ==
    [c \in CharsOf(AccentedLetters) |->
        Char(PlainLetters, CHOOSE i \in 1..Len(AccentedLetters) : Char(AccentedLetters, i) = c)]

\* the line without its diacritics
Unaccent(line) == MapChars(line, UnaccentTable)

PredLines ==
    { "Frais d'expédition", "Expédié à Saint-Georges", "Expédier à", "Vendu à Kennebec",
      "Garantie", "Préparation", "Année modèle 2023", "Coût annuel",
      "Assistance routière", "Transférable", "ENSEMBLE REMORQUAGE", "Sièges chauffants",
      "S.L.", "Ce véhicule est fabriqué", "Le concessionnaire", "Sold to",
      "Attelage de classe IV", "Taxe d'accise" }

\* a line as printed, in upper case, in lower case, and each without diacritics
Spellings(line) ==
    { line, Upper(line), Lower(line), Unaccent(line), Upper(Unaccent(line)),
      Lower(Unaccent(line)) }

InitPred ==
    /\ pc = "pred_junk"
    /\ \E line \in PredLines : sample \in Spellings(line) \X Spellings(line)
    /\ verdict = NoVerdict
    /\ NoDoc /\ NoTierOut /\ NoRun /\ NoMain /\ NoProd /\ NoConc /\ NoCron
    /\ txt = "" /\ vin = ""

ApplyLooksLikeJunk ==
    /\ pc = "pred_junk"
    /\ verdict' = [verdict EXCEPT !.junk = << looks_like_junk(sample[1]),
                                              looks_like_junk(sample[2]) >>]
    /\ pc' = "pred_stop"
    /\ UNCHANGED <<cronVars, vinVars, docVars, tierVars, mainVars, prodVars, concVars, sample>>

ApplyIsHardStop ==
    /\ pc = "pred_stop"
    /\ verdict' = [verdict EXCEPT !.stop = << is_hard_stop_detail(sample[1]),
                                              is_hard_stop_detail(sample[2]) >>]
    /\ pc' = "pred_done"
    /\ UNCHANGED <<cronVars, vinVars, docVars, tierVars, mainVars, prodVars, concVars, sample>>

NextPred == ApplyLooksLikeJunk \/ ApplyIsHardStop

SpecPred == InitPred /\ [][NextPred]_vars

----------------------------------------------------------------------------
(* Specification of the two renderers on options lists given by any caller *)

OptionGroup(title, price, details) == [title |-> title, price |-> price, details |-> details]

RenderGroupPool ==
    { OptionGroup("ENSEMBLE REMORQUAGE", "595 $", << "Attelage de classe IV" >>),
      OptionGroup("Ensemble Remorquage", "", << >>),
      OptionGroup("TAPIS PROTECTEURS", "150 $", << "595 $", "Garantie 5 ans" >>),
      OptionGroup("ENSEMBLE ALLURE", "", << "www.ramtrucks.ca", "Tapis", "tapis" >>),
      OptionGroup(" ", "", << "Attelage de classe IV" >>),
      OptionGroup("TAXE ACCISE FEDERALE", "25 $", << "Frais de transport" >>),
      OptionGroup("PNEUS", "100 $", [i \in 1..BulkLen |-> BulkDetails[i].label]) }

InitRender ==
    /\ pc = "render"
    /\ groups \in SeqsUpTo(RenderGroupPool, MaxRows)
    /\ args \in ArgsPool
    /\ calls = << >> /\ ad = << >> /\ rc = << >>
    /\ pdf_exists = FALSE /\ pytesseract = FALSE
    /\ parses = FALSE /\ pdftoppm = FALSE /\ raised = ""
    /\ NoDoc /\ NoTierOut /\ NoProd /\ NoConc /\ NoPred /\ NoCron
    /\ txt = "" /\ vin = ""

\* sticker_to_ad.build_ad(options=groups, ...)
RenderStickerAd ==
    /\ pc = "render"
    /\ ad' = build_ad([title |-> args.title, price |-> args.price, mileage |-> args.mileage,
                       stock |-> args.stock, vin |-> args.vin, options |-> groups,
                       is_hybrid |-> FALSE, dealer |-> args.dealer, year |-> args.year,
                       transmission |-> args.transmission,
                       drivetrain |-> args.drivetrain])
    /\ pc' = "rendered_sticker"
    /\ UNCHANGED <<cronVars, vinVars, docVars, tierVars, args, pdf_exists, pytesseract, parses,
                   pdftoppm, raised, groups, calls, rc, prodVars, concVars, predVars>>

\* ad_builder.build_ad(title, price, mileage, stock, vin, options)
RenderProdAd ==
    /\ pc = "render"
    /\ ad' = build_ad_from_options(args.title, args.price, args.mileage, args.stock,
                                   args.vin, groups, "")
    /\ pc' = "rendered_prod"
    /\ UNCHANGED <<cronVars, vinVars, docVars, tierVars, args, pdf_exists, pytesseract, parses,
                   pdftoppm, raised, groups, calls, rc, prodVars, concVars, predVars>>

NextRender == RenderStickerAd \/ RenderProdAd

SpecRender == InitRender /\ [][NextRender]_vars

----------------------------------------------------------------------------
(* Claims about the tiers and about extract_vin_from_text *)

Groups3 == {out1[i] : i \in 1..Len(out1)} \cup {out3[i] : i \in 1..Len(out3)}

\* C4: each of the three tiers returns at most 12 groups.
C4_BoundedGroups == Len(out1) <= 12 /\ Len(out2) <= 12 /\ Len(out3) <= 12

\* a document with more than 12 distinct acceptable titles, cut to 12 by every tier
C4_Witness ==
    /\ pc = "tiers_done"
    /\ Len(T1Groups(spans)) > 12 /\ Len(out1) = 12
    /\ Len(T2Final(page_lines)) > 12 /\ Len(out2) = 12
    /\ Len(T3Final(ocr_lines)) > 12 /\ Len(out3) = 12

\* C5: every group returned by Tier 1 and by Tier 3 carries at most 12 details.
C5_BoundedDetails == \A g \in Groups3 : Len(g.details) <= 12

NoTwoTitlesEqualIgnoringCase(titles) ==
    \A i, j \in 1..Len(titles) : i < j => Lower(titles[i]) # Lower(titles[j])

TitleOf(g) == g.title

\* C6: no tier returns two groups whose titles are equal ignoring case (Tier 2's
\* strings are the titles main gives its groups).
C6_NoDuplicateTitles ==
    /\ NoTwoTitlesEqualIgnoringCase(MapSeq(out1, TitleOf))
    /\ NoTwoTitlesEqualIgnoringCase(out2)
    /\ NoTwoTitlesEqualIgnoringCase(MapSeq(out3, TitleOf))

C8Alphabet == CharsOf("0123456789ABCDEFGHJKLMNPRSTUVWXYZ")

\* C8: extract_vin_from_text returns "" or 17 characters of the VIN alphabet.
C8_VinWellFormed ==
    vin = "" \/ (Len(vin) = 17 /\ \A i \in 1..17 : Char(vin, i) \in C8Alphabet)

\* three chunks whose second holds an I: nothing is returned
C8_Witness ==
    /\ pc = "vin_done"
    /\ txt = "1C6" \o EmDash \o "RR7IG5NS" \o EmDash \o "241151"
    /\ vin = ""

IsValidVin(s) == Len(s) = 17 /\ \A i \in 1..17 : Char(s, i) \in C8Alphabet

C9Dashes == {"-", EmDash, " " \o EnDash \o " "}

\* C9: a valid VIN written in txt contiguously or as three dash-separated chunks is
\* returned exactly; three dash-separated chunks that do not reassemble to a
\* valid VIN give "".
C9_VinRoundTrip ==
    pc = "vin_done" =>
        \A c1 \in VinChunk1, c2 \in VinChunk2, c3 \in VinChunk3 :
            /\ \A s \in C9Dashes \cup {""} :
                  (IsValidVin(c1 \o c2 \o c3) /\ Contains(txt, c1 \o s \o c2 \o s \o c3))
                      => vin = c1 \o c2 \o c3
            /\ \A s \in C9Dashes :
                  (~IsValidVin(c1 \o c2 \o c3) /\ txt = c1 \o s \o c2 \o s \o c3)
                      => vin = ""

InLabelBand(sp) == RIGHT_TEXT_MIN_X <= sp.x0 /\ sp.x0 <= RIGHT_TEXT_MAX_X

\* the spans are the vehicle header, the section header and below it L, its price
\* token P at the same height, and lower D, more than 6 units from P
C10Scenario ==
    /\ Len(spans) = 5
    /\ has_anchor(spans[2].text)
    /\ LET L == spans[3]
           P == spans[4]
           D == spans[5]
       IN /\ InLabelBand(L) /\ ~looks_like_junk(L.text) /\ L.y0 <= spans[2].y0
          /\ P.x0 >= PRICE_MIN_X /\ is_price_token(P.text) /\ P.y0 = L.y0
          /\ InLabelBand(D) /\ D.y0 < L.y0 /\ Abs(P.y0 - D.y0) > 6

C10Result ==
    /\ Len(out1) = 1
    /\ out1[1].title = spans[3].text
    /\ out1[1].details = << spans[5].text >>

\* what the code asks of L and of D beyond the scenario
C10Accepted ==
    LET L == spans[3].text
        D == spans[5].text
    IN /\ ~is_price_only_text(L) /\ ~has_anchor(L) /\ ~is_hard_stop_detail(L)
       /\ ~Contains(Upper(L), "TAXE ACCISE") /\ ~ContainsAny(Lower(L), BAN_TITLES)
       /\ ~is_price_only_text(D) /\ ~has_anchor(D) /\ ~is_hard_stop_detail(D)
       /\ ~is_junk_detail(D)
       /\ (spans[5].x0 >= DETAIL_INDENT_X \/ Len(D) <= 70)
       /\ Lower(D) # Lower(L)

\* C10 as stated: in the scenario Tier 1 returns one group, title L, details [D].
C10_ScenarioAsStated == (pc # "tier1" /\ C10Scenario) => C10Result

\* C10 as amended: the same when L's text is moreover not price-only, not a section
\* header, not a hard stop and not a banned title, and D's text is not rejected as
\* a detail (junk detail, price-only, header, hard stop, flush left and longer
\* than 70, or equal to L ignoring case).
C10_ScenarioAmended == (pc # "tier1" /\ C10Scenario /\ C10Accepted) => C10Result

C10_Witness ==
    /\ pc = "tier2" /\ C10Scenario /\ C10Accepted
    /\ out1 = << [title |-> "ENSEMBLE REMORQUAGE", price |-> "595 $",
                  details |-> << "Attelage de classe IV" >>] >>

----------------------------------------------------------------------------
(* Claims about sticker_to_ad.main *)

Range(seq) == {seq[i] : i \in 1..Len(seq)}

IsOptionLine(line) ==
    StartsWith(line, OptionTitlePrefix) \/ StartsWith(line, OptionDetailPrefix)

\* the prices Tier 2 pairs with labels in raw_lines
T2PairedPrices(raw_lines) ==
    LET lines == MapSeq(raw_lines, normalize)
    IN IF T2StartIdx(lines) = 0 THEN {}
       ELSE LET n == Min({Len(T2UseLabels(T2Labels(lines))), Len(T2Prices(lines))})
            IN {T2Prices(lines)[i] : i \in 1..n}

\* the prices paired with a label by the tier that supplied groups
PairedPrices ==
    ({groups[i].price : i \in 1..Len(groups)} \ {""})
    \cup (IF "tier2" \in Range(calls) THEN T2PairedPrices(page_lines) ELSE {})

\* C1: no option line of the ad built by main (title line or detail line) holds a
\* price that extraction paired with a label, whichever tier supplied the groups.
C1_NeverLeakPrice ==
    pc = "main_done" =>
        \A p \in PairedPrices : \A i \in 1..Len(ad) :
            IsOptionLine(ad[i]) => ~Contains(ad[i], p)

TextIsBlank == Strip(PageText(page_lines)) = ""

C2Common ==
    /\ calls # << >> => calls[1] = "tier1"
    /\ (calls # << >> /\ out1 # << >>) => calls = << "tier1" >>
    /\ "tier2" \in Range(calls) => out1 = << >>
    /\ "tier3" \in Range(calls) => (out1 = << >> /\ out2 = << >>)

\* C2 as stated: Tier 1 first; Tier 2 before Tier 3 whenever Tier 1 yields nothing;
\* Tier 3 only after Tier 1 and Tier 2 both yielded nothing; neither after a
\* non-empty Tier 1.
C2_OrderAsStated ==
    /\ C2Common
    /\ "tier3" \in Range(calls) => calls = << "tier1", "tier2", "tier3" >>

\* C2 as amended: the same, except that blank flattened text skips Tier 2: then
\* Tier 3 follows Tier 1 directly; with text that is not blank, an empty Tier 1 is
\* always followed by Tier 2.
C2_OrderAmended ==
    /\ C2Common
    /\ "tier3" \in Range(calls) =>
          IF TextIsBlank THEN calls = << "tier1", "tier3" >>
          ELSE calls = << "tier1", "tier2", "tier3" >>
    /\ (pc \in {"main_tier3", "main_build"} /\ out1 = << >> /\ ~TextIsBlank)
          => "tier2" \in Range(calls)
    /\ (pc = "main_build" /\ out1 = << >> /\ out2 = << >>) => "tier3" \in Range(calls)

\* a scanned sticker: no text layer, Tier 2 skipped, the groups come from OCR
C2_Witness ==
    /\ pc = "main_done"
    /\ TextIsBlank
    /\ calls = << "tier1", "tier3" >>
    /\ groups = out3
    /\ \E i \in 1..Len(out3) : out3[i].title = "ENSEMBLE REMORQUAGE"

\* C7: every group handed to build_ad has a title that is not empty, not
\* price-only and not junk.
C7_TitleInvariant ==
    pc \in {"main_build", "main_done"} =>
        \A i \in 1..Len(groups) :
            /\ groups[i].title # ""
            /\ ~is_price_only_text(groups[i].title)
            /\ ~looks_like_junk(groups[i].title)

----------------------------------------------------------------------------
(* Claims about runner_cron_prod._build_ad_text *)

\* C3: on the production path, an empty Tier 1 on a valid cached sticker is
\* followed by Tier 2 and, if that is empty too, by Tier 3, before the text
\* engine is used instead of the sticker.
C3_ProdFallbackChain ==
    (pc \in {"prod_engine", "prod_done"} /\ "tier1" \in Range(calls) /\ out1 = << >>)
        => (/\ Len(calls) >= 2 /\ calls[2] = "tier2"
            /\ out2 = << >> => (Len(calls) >= 3 /\ calls[3] = "tier3"))

----------------------------------------------------------------------------
(* Claims about banned titles, failures and the shared predicates *)

IsNotDestinationLine(l) == normalize(l) # DestinationLine

TitlesOf(gs) == [i \in 1..Len(gs) |-> gs[i].title]

NoDestinationTitle(titles) ==
    \A i \in 1..Len(titles) : ~Contains(Upper(titles[i]), "DESTINATION CHARGE")

\* C11: a line "DESTINATION CHARGE 1895 $" in the flattened or the recognised text
\* never becomes a title of Tier 2 or Tier 3, and contributes nothing to any
\* title: each tier returns the titles it returns for the text without that line.
C11_BannedTitle ==
    pc = "tiers_done" =>
        /\ NoDestinationTitle(out2)
        /\ out2 = extract_paid_options_from_text(SelectSeq(page_lines, IsNotDestinationLine))
        /\ NoDestinationTitle(TitlesOf(out3))
        /\ TitlesOf(out3) =
              TitlesOf(extract_option_groups_from_ocr(SelectSeq(ocr_lines, IsNotDestinationLine)))

\* the line is in both texts and each tier accepts another line's title
C11_Witness ==
    /\ pc = "tiers_done"
    /\ DestinationLine \in Range(page_lines) /\ DestinationLine \in Range(ocr_lines)
    /\ out2 # << >> /\ out3 # << >>

\* C12: extract_spans_pdfminer never raises: on a file that cannot be parsed it
\* returns no span, so that main goes on to the tiers and returns normally.
C12_SpansNeverRaise ==
    /\ raised = ""
    /\ (pc = "main_done" /\ pdf_exists /\ ~parses) =>
          (spans = << >> /\ "tier1" \in Range(calls) /\ rc = << 0 >>)

OcrUnavailable == ~pytesseract \/ ~pdftoppm \/ Strip(PageText(ocr_lines)) = ""

\* C13: when OCR is not available (pytesseract or PIL missing, pdftoppm failing)
\* or recognises no text, Tier 3 yields no group and raises nothing, and main
\* still builds the ad, without an options section, and returns 0.
C13_OcrDegradesSilently ==
    (pc = "main_done" /\ "tier3" \in Range(calls) /\ OcrUnavailable) =>
        /\ out3 = << >> /\ groups = << >>
        /\ raised = "" /\ rc = << 0 >>
        /\ ad # << >>
        /\ \A i \in 1..Len(ad) : ~IsOptionLine(ad[i])

\* Tier 3 was attempted with pdftoppm failing on a sticker that shows an option
C13_Witness ==
    /\ pc = "main_done" /\ "tier3" \in Range(calls)
    /\ pytesseract /\ ~pdftoppm
    /\ \E i \in 1..Len(ocr_lines) : Contains(ocr_lines[i], "ENSEMBLE REMORQUAGE")
    /\ ad # << >> /\ rc = << 0 >>

NoAnchorAnywhere ==
    /\ \A i \in 1..Len(spans) : ~has_anchor(spans[i].text)
    /\ \A i \in 1..Len(page_lines) : ~has_anchor(page_lines[i])
    /\ \A i \in 1..Len(ocr_lines) : ~has_anchor(ocr_lines[i])

\* C14: when no span and no line holds a section header ("ACCESSOIRES OPTIONNELS"
\* or "OPTIONAL EQUIPMENT"), each of the three tiers returns no group.
C14_AnchorNotFound ==
    (pc = "tiers_done" /\ NoAnchorAnywhere) =>
        (out1 = << >> /\ out2 = << >> /\ out3 = << >>)

\* C15: invocations that extract distinct documents at the same time share
\* nothing: under every interleaving each one returns the option groups of its
\* own document.
C15_ConcurrentExtraction ==
    \A w \in Invocations :
        (pc = "conc" /\ workers[w].pc = "done") =>
            workers[w].groups = _extract_options_from_sticker_bytes(workers[w].pdf_bytes)

\* a sticker with the section header and one priced row below it: the same label
\* reaches each tier as a candidate title
C16Candidate ==
    /\ pc = "tiers_done"
    /\ Len(spans) = 4 /\ has_anchor(spans[2].text)
    /\ InLabelBand(spans[3]) /\ spans[4].x0 >= PRICE_MIN_X /\ spans[4].y0 = spans[3].y0
    /\ page_lines = << spans[1].text, spans[2].text, spans[3].text, spans[4].text >>
    /\ ocr_lines = << spans[1].text, spans[2].text, spans[3].text \o "  " \o spans[4].text >>

Tier1Accepts(label) == \E i \in 1..Len(out1) : out1[i].title = label

Tier2Accepts(label) == \E i \in 1..Len(out2) : StartsWith(out2[i], label \o " (")

Tier3Accepts(label) == \E i \in 1..Len(out3) : out3[i].title = label

\* C16: the three tiers apply the same exclusion rules: a candidate title that
\* one tier rejects is rejected by the other two when it reaches them.
C16_IdenticalExclusion ==
    C16Candidate =>
        /\ Tier1Accepts(spans[3].text) <=> Tier2Accepts(spans[3].text)
        /\ Tier2Accepts(spans[3].text) <=> Tier3Accepts(spans[3].text)

SameVerdicts == verdict.junk[1] = verdict.junk[2] /\ verdict.stop[1] = verdict.stop[2]

\* C17: looks_like_junk and is_hard_stop_detail are case-insensitive and
\* accent-insensitive: two lines that differ only by letter case, or only by
\* diacritics, get the same verdict from each predicate.
C17_CaseAndAccentInsensitive ==
    pc = "pred_done" =>
        /\ Lower(sample[1]) = Lower(sample[2]) => SameVerdicts
        /\ Unaccent(sample[1]) = Unaccent(sample[2]) => SameVerdicts

Rendered == pc \in {"rendered_sticker", "rendered_prod"}

\* the text of an emitted line after its prefix
AfterPrefix(line, prefix) == SubSeq(line, Len(prefix) + 1, Len(line))

IsDetailBullet(line) == StartsWith(line, OptionDetailPrefix)

IsTitleLine(line) == StartsWith(line, OptionTitlePrefix)

RenderedTitle(line) == AfterPrefix(line, OptionTitlePrefix)

\* C18: in both renderers, no emitted detail bullet is junk and none is
\* price-only, whatever options list the caller passes.
C18_RendererFinalGate ==
    Rendered =>
        \A i \in 1..Len(ad) :
            IsDetailBullet(ad[i]) =>
                /\ ~looks_like_junk(AfterPrefix(ad[i], OptionDetailPrefix))
                /\ ~is_price_only_text(AfterPrefix(ad[i], OptionDetailPrefix))

\* C19: in both renderers, the rendered text holds each option title at most once
\* ignoring case.
C19_RendererTitleDedup ==
    Rendered => NoTwoTitlesEqualIgnoringCase(MapSeq(SelectSeq(ad, IsTitleLine), RenderedTitle))

\* the label-band spans below the section header that are hard stops
HardStopLabels ==
    IF \A i \in 1..Len(spans) : ~has_anchor(spans[i].text) THEN {}
    ELSE {i \in 1..Len(spans) :
            /\ spans[i].y0 <= anchor_y_of(spans)
            /\ InLabelBand(spans[i])
            /\ is_hard_stop_detail(clean_option_line(spans[i].text))}

InSomeGroup(text) ==
    \E g \in 1..Len(out1) :
        \/ out1[g].title = text
        \/ \E d \in 1..Len(out1[g].details) : out1[g].details[d] = text

HasMonetarySubstring(text) == extract_price(text) # ""

\* C21: no title returned by Tier 1 contains a substring that matches the
\* monetary pattern: the label's amount is removed when it opens a group.
C21_Tier1TitleWithoutAmount ==
    pc \in {"tier2", "tier3", "tiers_done"} =>
        \A g \in 1..Len(out1) : ~HasMonetarySubstring(out1[g].title)

AnchorSpans == {i \in 1..Len(spans) : has_anchor(spans[i].text)}

\* the least y0 of a section header: the header printed lowest on the page, the
\* label band being read from the greatest y0 down
LowestAnchorY == Min({spans[i].y0 : i \in AnchorSpans})

AtOrBelowLowestAnchor(sp) == sp.y0 <= LowestAnchorY

\* C22: when several spans hold a section header, Tier 1 anchors on the one
\* printed lowest on the page and collects labels and prices on the options side
\* of it only: it returns what it returns for the spans from that header down.
C22_Tier1LowestAnchor ==
    (pc \in {"tier2", "tier3", "tiers_done"} /\ AnchorSpans # {}) =>
        out1 = extract_option_groups_from_spans(SelectSeq(spans, AtOrBelowLowestAnchor))

----------------------------------------------------------------------------
(* Claims about Tier 1 prices, Tier 2 pairing and Tier 3 details *)

C23IsPrice(l) == is_price_only(l) # ""

C23IsLabel(l) ==
    /\ ~HasMonetarySubstring(l)
    /\ clean_option_line(l) # ""
    /\ ~looks_like_junk(clean_option_line(l))

C23HasAnchor == \E i \in 1..Len(page_lines) : has_anchor(normalize(page_lines[i]))

\* labels, use_labels, prices and pairs as the claim defines them, for lines that
\* hold an anchor
C23Queues(raw_lines) ==
    LET lines == MapSeq(raw_lines, normalize)
        anchor == Min({i \in 1..Len(lines) : has_anchor(lines[i])})
        stops == {j \in (anchor + 1)..Len(lines) : is_hard_stop_detail(lines[j])}
        between == SubSeq(lines, anchor + 1, IF stops = {} THEN Len(lines) ELSE Min(stops) - 1)
        labels == MapSeq(SelectSeq(between, C23IsLabel), clean_option_line)
        prices == MapSeq(SelectSeq(between, C23IsPrice), is_price_only)
        curated == SelectSeq(labels, HasKeepPrefix)
        use_labels == IF curated # << >> THEN curated ELSE labels
        n == Min({Len(use_labels), Len(prices)})
    IN [labels |-> labels, use_labels |-> use_labels, prices |-> prices,
        pairs |-> [i \in 1..n |-> use_labels[i] \o " (" \o prices[i] \o ")"]]

\* C23: Tier 2 pairs by position.  With labels the non-junk, price-free lines and
\* prices the price-only lines between the anchor line and the first hard stop,
\* and use_labels the labels with a curated prefix if there is one, else all
\* labels, the result is use_labels[i] with prices[i] for i below the shorter
\* length, de-duplicated and cut to 12; the results are flat strings, no details.
C23_Tier2Pairing ==
    (pc = "tiers_done" /\ C23HasAnchor) =>
        out2 = Take(DedupByKey(C23Queues(page_lines).pairs, Lower), T2GroupCap)

\* the prefix filter drops a label and a price is left without a label
C23_Witness ==
    /\ pc = "tiers_done" /\ C23HasAnchor
    /\ LET q == C23Queues(page_lines)
       IN /\ Len(q.use_labels) < Len(q.labels)
          /\ Len(q.use_labels) < Len(q.prices)
    /\ out2 # << >>

\* the price-band tokens Tier 1 collects, in the order of the spans
C24Prices ==
    LET IsPrice(sp) == InPrices(sp, anchor_y_of(spans)) IN SelectSeq(spans, IsPrice)

\* the token whose price the label span i is given (0: none)
C24TokenOf(i) == nearest_price_index(C24Prices, spans[i].y0, PRICE_TOL)

\* the label span i is a title line of group g: its text and its token's price
C24Opens(i, g) ==
    /\ InLabelBand(spans[i]) /\ spans[i].y0 <= anchor_y_of(spans)
    /\ clean_option_line(spans[i].text) = out1[g].title
    /\ C24TokenOf(i) # 0
    /\ extract_price(C24Prices[C24TokenOf(i)].text) = out1[g].price

\* C24: two different groups of one Tier 1 result never carry the price of the
\* same price-band span, even when two labels lie within the tolerance of it.
C24_Tier1PriceTokenOnce ==
    (pc \in {"tier2", "tier3", "tiers_done"} /\ AnchorSpans # {}) =>
        \A g, h \in 1..Len(out1) : \A i, j \in 1..Len(spans) :
            (g # h /\ i # j /\ C24Opens(i, g) /\ C24Opens(j, h))
                => C24TokenOf(i) # C24TokenOf(j)

C25Lines == MapSeq(ocr_lines, normalize)

C25PriceBearing(k) == HasMonetarySubstring(C25Lines[k])

C25Before(k) == {m \in 1..(k - 1) : C25PriceBearing(m)}

\* line k is a non-price line with that text whose nearest preceding
\* price-bearing line gives that title
C25DetailOf(k, detail, title) ==
    /\ ~C25PriceBearing(k)
    /\ clean_option_line(C25Lines[k]) = detail
    /\ C25Before(k) # {}
    /\ T3Title(C25Lines[Max(C25Before(k))]) = title

\* C25: every detail of a Tier 3 group is a non-price line whose nearest
\* preceding price-bearing line opened that group; the lines that follow a
\* price-bearing line rejected as a title do not go to the group opened earlier.
C25_Tier3DetailAttribution ==
    pc = "tiers_done" =>
        \A g \in 1..Len(out3) : \A d \in 1..Len(out3[g].details) :
            \E k \in 1..Len(C25Lines) : C25DetailOf(k, out3[g].details[d], out3[g].title)

----------------------------------------------------------------------------
(* Claims about the production runner *)

C26HasOptionLine == \E i \in 1..Len(ad) : StartsWith(ad[i], OptionTitlePrefix)

\* C26: when _build_ad_text returns the text of ad_builder.build_ad, that text
\* holds at least one option title line: the "ACCESSOIRES OPTIONNELS" header and
\* the window-sticker link never come with no option between them.
C26_ProdAdListsAnOption ==
    (pc = "prod_done" /\ used = "sticker") => C26HasOptionLine

----------------------------------------------------------------------------
(* Specification of repeated calls of ensure_sticker_cached for one vehicle *)

MaxCalls == 3

CacheFile == [parses |-> TRUE, text_layer |-> TRUE, doc |-> [anchor |-> TRUE, rows |-> << >>]]

\* what the manufacturer's URL can answer: no answer (the request raises), an
\* empty body, an HTML error page, a truncated PDF, the sticker
CacheReplies == {NoBlob, EmptyBlob, HtmlErrorBlob, ShortPdfBlob, PdfBlob(CacheFile)}

InitCache ==
    /\ pc = "cache_idle"
    /\ USE_STICKER_AD = TRUE
    /\ v \in {x \in VehiclePool : Len(Upper(Strip(x.vin))) = VinLen}
    /\ storage \in {[ok |-> o, bad |-> b, row |-> NoRow] :
                      o \in {NoBlob, PdfBlob(CacheFile)}, b \in {NoBlob, HtmlErrorBlob}}
    /\ remote \in CacheReplies
    /\ res = "" /\ pdf_bytes = NoBlob /\ used = ""
    /\ NoCache /\ NoLock /\ NoSold /\ NoBanner
    /\ NoDoc /\ NoTierOut /\ NoRun /\ NoMain /\ NoConc /\ NoPred
    /\ txt = "" /\ vin = ""

\* res = ensure_sticker_cached(sb, vin, run_id), from its first line to its return
CacheCall ==
    /\ pc = "cache_idle" /\ ncalls < MaxCalls
    /\ LET r == ensure_sticker_cached(storage, remote, v.vin)
       IN /\ storage' = r.storage
          /\ res' = r.status
    /\ fetches' = IF FetchesRemote(storage, v.vin) THEN fetches + 1 ELSE fetches
    /\ ncalls' = ncalls + 1
    /\ UNCHANGED <<lockVars, soldVars, bannerVars, predVars, concVars, pc, vinVars, docVars, tierVars, mainVars,
                   USE_STICKER_AD, v, remote, pdf_bytes, used>>

\* between two calls the manufacturer's URL comes to answer something else
RemoteChanges ==
    /\ pc = "cache_idle" /\ ncalls < MaxCalls
    /\ remote' \in CacheReplies \ {remote}
    /\ UNCHANGED <<cronVars, predVars, concVars, pc, vinVars, docVars, tierVars, mainVars,
                   USE_STICKER_AD, v, storage, res, pdf_bytes, used>>

NextCache == CacheCall \/ RemoteChanges

SpecCache == InitCache /\ [][NextCache]_vars

C27NoValidOk == ~_is_pdf_ok(storage.ok)

C27Returned == ncalls' = ncalls + 1

\* C27: over the calls of ensure_sticker_cached for one 17-character VIN the
\* remote sticker is requested at most once; a call returns "ok" only when
\* pdf_ok/<vin>.pdf holds bytes that start with %PDF and are at least 10240
\* long; and from a state where pdf_bad/<vin>.pdf exists and pdf_ok/ holds no
\* valid PDF, a call returns "bad" and requests nothing.
C27_StickerCacheProtocol ==
    /\ [](fetches <= 1)
    /\ []((ncalls > 0 /\ res = "ok") => _is_pdf_ok(storage.ok))
    /\ [][(storage.bad.present /\ C27NoValidOk /\ C27Returned)
              => (res' = "bad" /\ fetches' = fetches)]_vars

\* after a request that gave no valid PDF, a later call has returned "bad" from
\* the cache
C27_Witness ==
    /\ pc = "cache_idle" /\ fetches = 1 /\ ncalls >= 2
    /\ res = "bad" /\ storage.bad.present /\ C27NoValidOk

----------------------------------------------------------------------------
(* The sold banner: _strip_sold_banner, _sold_prefix, _make_sold_message *)

\* what str.strip() and str.lstrip() remove
StrWs == WsChars \cup {"\r", "\f"}

\* the line boundaries of str.splitlines() that occur in the texts
LineBreakChars == {"\n", "\r", "\f"}

\* s.splitlines(): "\r\n" is one boundary, and a final boundary opens no line
SplitLines(s) ==
    LET starts == {i \in 1..Len(s) : /\ Char(s, i) \in LineBreakChars
                                     /\ ~(Char(s, i) = "\n" /\ SafeChar(s, i - 1) = "\r")}
        n == Cardinality(starts)
        brk(k) == CHOOSE i \in starts : Cardinality({j \in starts : j < i}) = k - 1
        after(i) == IF Char(s, i) = "\r" /\ SafeChar(s, i + 1) = "\n" THEN i + 2 ELSE i + 1
        first(k) == IF k = 1 THEN 1 ELSE after(brk(k - 1))
        last(k) == IF k <= n THEN brk(k) - 1 ELSE Len(s)
        count == IF s = "" THEN 0
                 ELSE IF n > 0 /\ after(brk(n)) > Len(s) THEN n ELSE n + 1
    IN [k \in 1..count |-> SubSeq(s, first(k), last(k))]

SoldMarker == Glyph("siren") \o " VENDU " \o Glyph("siren")

\* U+2500, twenty times
SoldRule == "¦¦¦¦¦¦¦¦¦¦¦¦¦¦¦¦¦¦¦¦"

SoldPlaceholder == "(Détails indisponibles " \o EmDash \o " contactez-moi.)"

_strip_sold_banner(text) ==
    LET t == LStrip(text, StrWs)
        lines == SplitLines(t)
        rule == {k \in 1..Len(lines) : Contains(lines[k], SoldRule)}
        out == IF rule = {} THEN << >> ELSE SubSeq(lines, Min(rule) + 1, Len(lines))
    IN IF ~StartsWith(t, SoldMarker) THEN t
       ELSE LStrip(JoinSep(out, "\n"), StrWs)

_sold_prefix ==
    SoldMarker \o "\n\n"
    \o "Ce véhicule n" \o CurlyApostrophe \o "est plus disponible.\n\n"
    \o Glyph("point") \o " Vous recherchez un véhicule semblable ?\n"
    \o "Contactez-moi directement, je peux vous aider.\n\n"
    \o "Daniel Giroux\n"
    \o Glyph("phone") \o " 418-222-3939\n"
    \o SoldRule \o "\n\n"

\* the same without the removal of a banner already there
_make_sold_message_over_banner(b) ==
    _sold_prefix \o (IF StripChars(b, StrWs) = "" THEN SoldPlaceholder ELSE StripChars(b, StrWs))

_make_sold_message(b) ==
    LET base == StripChars(_strip_sold_banner(b), StrWs)
    IN _sold_prefix \o (IF base = "" THEN SoldPlaceholder ELSE base)

----------------------------------------------------------------------------
(* Specification of a post marked sold again and again *)

MaxMarks == 2

BannerBodies ==
    {h \o t : h \in {"RAM 1500 2023", "Jeep Wrangler"},
              t \in {""} \cup {sep \o "45 995 $" : sep \in {"\n", "\n\n", "\r\n"}}}

\* texts of posts: plain ones with white space around them, blank ones, ones
\* that carry the banner already, ones that begin like the banner without its rule
BannerTexts ==
    {lead \o b \o trail : lead \in {"", "\n "}, b \in BannerBodies, trail \in {"", " \n"}}
    \cup {"", "  \n"}
    \cup {_sold_prefix \o b : b \in BannerBodies \cup {""}}
    \cup {SoldMarker \o " " \o b : b \in BannerBodies}

InitBanner ==
    /\ pc = "banner"
    /\ base_text \in BannerTexts
    /\ message = base_text
    /\ stripped = << >> /\ marks = 0
    /\ NoCache /\ NoLock /\ NoSold
    /\ NoDoc /\ NoTierOut /\ NoRun /\ NoMain /\ NoProd /\ NoConc /\ NoPred
    /\ txt = "" /\ vin = ""

\* msg = _make_sold_message(...); update_post_text(post_id, FB_TOKEN, msg)
MarkSold ==
    /\ pc = "banner" /\ marks < MaxMarks
    /\ message' = _make_sold_message(message)
    /\ marks' = marks + 1
    /\ stripped' = << >>
    /\ UNCHANGED <<cacheVars, lockVars, soldVars, base_text, predVars, concVars, pc, vinVars,
                   docVars, tierVars, mainVars, prodVars>>

\* _strip_sold_banner(fetch_fb_post_message(post_id, FB_TOKEN))
StripBanner ==
    /\ pc = "banner" /\ stripped = << >>
    /\ stripped' = << _strip_sold_banner(message) >>
    /\ UNCHANGED <<cacheVars, lockVars, soldVars, base_text, message, marks, predVars,
                   concVars, pc, vinVars, docVars, tierVars, mainVars, prodVars>>

NextBanner == MarkSold \/ StripBanner

SpecBanner == InitBanner /\ [][NextBanner]_vars

C30Expected(b) == IF StripChars(b, StrWs) = "" THEN SoldPlaceholder ELSE StripChars(b, StrWs)

C30RoundTrip ==
    /\ (marks = 1 /\ stripped # << >>) => stripped[1] = C30Expected(base_text)
    /\ marks >= 1 => message = _sold_prefix \o C30Expected(base_text)

\* the text has no banner at its start and breaks its lines with "\n" only
C30Plain(b) ==
    /\ ~StartsWith(LStrip(b, StrWs), SoldMarker)
    /\ \A i \in 1..Len(b) : Char(b, i) \notin {"\r", "\f"}

----------------------------------------------------------------------------
(* Specification of two executions of runner_cron_prod.main and their lock *)

LOCK_TTL_SEC == 45 * 60

Executions == 1..2

Execution(at, t, seen) == [at |-> at, now |-> t, seen |-> seen]

LockBlob(ts) == << [ts |-> ts] >>

\* (now - ts) < LOCK_TTL_SEC for the lock the execution downloaded
SeesFreshLock(e) == e.seen # << >> /\ (e.now - e.seen[1].ts) < LOCK_TTL_SEC

\* no lock, or the lock of an execution that was killed before its release:
\* an old one, or one written a second ago
InitLock ==
    /\ pc = "lock"
    /\ now = 0 /\ tmpfs = << >> /\ workers = << >>
    /\ lock \in {<< >>, LockBlob(0 - LOCK_TTL_SEC), LockBlob(0 - 1)}
    /\ runs = [e \in Executions |-> Execution("start", 0, << >>)]
    /\ NoCache /\ NoSold /\ NoBanner
    /\ NoDoc /\ NoTierOut /\ NoRun /\ NoMain /\ NoProd /\ NoPred
    /\ txt = "" /\ vin = ""

LockTick ==
    /\ pc = "lock" /\ now < MaxClock
    /\ now' = now + 1
    /\ UNCHANGED <<cronVars, predVars, pc, vinVars, docVars, tierVars, mainVars, prodVars,
                   tmpfs, workers>>

\* now = int(time.time()); b = sb.storage.from_(OUTPUTS_BUCKET).download(LOCK_PATH)
LockDownload(e) ==
    /\ pc = "lock" /\ runs[e].at = "start"
    /\ runs' = [runs EXCEPT ![e] = Execution("acquiring", now, lock)]
    /\ UNCHANGED <<cacheVars, lock, soldVars, bannerVars, predVars, concVars, pc, vinVars,
                   docVars, tierVars, mainVars, prodVars>>

\* raise SystemExit(0): not an Exception, so the except clause lets it through
LockExit(e) ==
    /\ pc = "lock" /\ runs[e].at = "acquiring" /\ SeesFreshLock(runs[e])
    /\ runs' = [runs EXCEPT ![e].at = "exited"]
    /\ UNCHANGED <<cacheVars, lock, soldVars, bannerVars, predVars, concVars, pc, vinVars,
                   docVars, tierVars, mainVars, prodVars>>

\* the upload of {"ts": now}, after which main scrapes and posts
LockUpload(e) ==
    /\ pc = "lock" /\ runs[e].at = "acquiring" /\ ~SeesFreshLock(runs[e])
    /\ lock' = LockBlob(runs[e].now)
    /\ runs' = [runs EXCEPT ![e].at = "running"]
    /\ UNCHANGED <<cacheVars, soldVars, bannerVars, predVars, concVars, pc, vinVars,
                   docVars, tierVars, mainVars, prodVars>>

\* finally: release_lock(sb), which removes the blob whoever wrote it
LockRelease(e) ==
    /\ pc = "lock" /\ runs[e].at = "running"
    /\ lock' = << >>
    /\ runs' = [runs EXCEPT ![e].at = "done"]
    /\ UNCHANGED <<cacheVars, soldVars, bannerVars, predVars, concVars, pc, vinVars,
                   docVars, tierVars, mainVars, prodVars>>

NextLock ==
    \/ LockTick
    \/ \E e \in Executions : LockDownload(e) \/ LockExit(e) \/ LockUpload(e) \/ LockRelease(e)

SpecLock == InitLock /\ [][NextLock]_vars

\* C28: of two executions of main that start within LOCK_TTL_SEC of each other,
\* at most one is past acquire_lock_or_exit at a time, under every interleaving
\* of their lock download and lock upload: never both scrape and post together.
C28_RunLockMutualExclusion ==
    pc = "lock" => ~(runs[1].at = "running" /\ runs[2].at = "running")

----------------------------------------------------------------------------
(* Specification of successive executions of runner_cron_prod.main:        *)
(* the inventory table, the posts table and the SOLD flow                  *)

MaxRuns == 3

MIN_INVENTORY_ABS == 30

\* MIN_INVENTORY_RATIO, in hundredths
MIN_INVENTORY_RATIO_PCT == 70

\* two vehicles followed one by one, and the rest of the dealer's listing,
\* whose vehicles are seen or missed a listing page at a time
TrackedSlugs == {"ram-1500-2023-k1001", "wrangler-2022-k1002"}

ListingSlugs == {"page-1", "page-2"}

Slugs == TrackedSlugs \cup ListingSlugs

VehiclesOf(slug) == IF slug = "page-1" THEN 35 ELSE IF slug = "page-2" THEN 20 ELSE 1

RECURSIVE CountVehicles(_)
CountVehicles(slugs) ==
    IF slugs = {} THEN 0
    ELSE LET s == CHOOSE x \in slugs : TRUE
         IN VehiclesOf(s) + CountVehicles(slugs \ {s})

SoldAdText == "RAM 1500 2023\n45 995 $"

NoPost == [post_id |-> FALSE, status |-> "", base_text |-> "", text |-> ""]

Post(status, base, text) == [post_id |-> TRUE, status |-> status, base_text |-> base, text |-> text]

\* inv_db_active
inv_db_active(inv_db) == {s \in Slugs : inv_db[s] \in {"ACTIVE", "MISSING"}}

\* db_active_count = len(inv_db_active) or 1
db_active_count(inv_db) ==
    LET n == CountVehicles(inv_db_active(inv_db)) IN IF n = 0 THEN 1 ELSE n

scrape_ok(inv_count, active_count) ==
    /\ ~(inv_count < MIN_INVENTORY_ABS)
    /\ ~(inv_count * 100 < MIN_INVENTORY_RATIO_PCT * active_count)

\* a flow that marks a vehicle sold the first time it is absent
sold_flow_status_in_one_step(old_status) ==
    IF old_status \in {"ACTIVE", "MISSING"} THEN "SOLD" ELSE old_status

\* the status the SOLD flow gives a disappeared slug
sold_flow_status(old_status) ==
    IF old_status = "ACTIVE" THEN "MISSING"
    ELSE IF old_status = "MISSING" THEN "SOLD"
    ELSE old_status

\* the post of a slug whose row goes from MISSING to SOLD
sold_flow_post(post, DRY_RUN, fb_fails) ==
    IF ~(post.post_id /\ post.status # "SOLD") \/ DRY_RUN \/ fb_fails THEN post
    ELSE LET stored == StripChars(post.base_text, StrWs)
             base == IF stored # "" THEN stored ELSE _strip_sold_banner(post.text)
         IN Post("SOLD", base, _make_sold_message(base))

\* daily_audit_and_fix on the post of a row that is ACTIVE: a post marked
\* sold gets its text back
daily_restore(post, DRY_RUN, fb_fails) ==
    LET base == StripChars(post.base_text, StrWs)
        has_sold_banner == StartsWith(base, SoldMarker)
        restored == IF base # "" THEN _strip_sold_banner(base) ELSE ""
        restore_text == IF restored # "" THEN restored ELSE SoldAdText
    IN IF post.post_id /\ (post.status = "SOLD" \/ has_sold_banner) /\ ~DRY_RUN /\ ~fb_fails
       THEN Post("ACTIVE", restore_text, restore_text)
       ELSE post

InitSold ==
    /\ pc = "cron"
    /\ inventory = [s \in Slugs |-> "ACTIVE"]
    /\ posts \in {f \in [Slugs -> {NoPost, Post("ACTIVE", SoldAdText, SoldAdText),
                                  Post("ACTIVE", "", SoldAdText)}] :
                    /\ \A s \in ListingSlugs : f[s] = NoPost
                    /\ f["ram-1500-2023-k1001"] # NoPost}
    /\ run = << >> /\ runlog = << >>
    /\ NoCache /\ NoLock /\ NoBanner
    /\ NoDoc /\ NoTierOut /\ NoRun /\ NoMain /\ NoProd /\ NoConc /\ NoPred
    /\ txt = "" /\ vin = ""

\* one execution of main, from the snapshot of the two tables to the SOLD flow
CronRun(current, DRY_RUN, fb_fails, daily) ==
    /\ pc = "cron" /\ Len(runlog) < MaxRuns
    /\ LET inv_db == inventory
           posts_db == posts
           inv_count == CountVehicles(current)
           ok == scrape_ok(inv_count, db_active_count(inv_db))
           disappeared_slugs == inv_db_active(inv_db) \ current
           upserted == [s \in Slugs |-> IF s \in current THEN "ACTIVE" ELSE inv_db[s]]
           fixed == [s \in Slugs |->
                        IF ok /\ daily /\ upserted[s] = "ACTIVE"
                        THEN daily_restore(posts_db[s], DRY_RUN, fb_fails)
                        ELSE posts_db[s]]
           entry == [scrape_ok |-> ok, current |-> current \cap TrackedSlugs]
       IN /\ inventory' = [s \in Slugs |->
                              IF ok /\ s \in disappeared_slugs
                              THEN sold_flow_status(inv_db[s])
                              ELSE upserted[s]]
          /\ posts' = [s \in Slugs |->
                          IF ok /\ s \in disappeared_slugs /\ inv_db[s] = "MISSING"
                          THEN sold_flow_post(posts_db[s], DRY_RUN, fb_fails)
                          ELSE fixed[s]]
          /\ run' = << [inv_count |-> inv_count, scrape_ok |-> ok] >>
          /\ runlog' = Append(runlog, entry)
    /\ UNCHANGED <<cacheVars, lockVars, bannerVars, predVars, concVars, pc, vinVars,
                   docVars, tierVars, mainVars, prodVars>>

NextSold ==
    \E current \in SUBSET Slugs : \E DRY_RUN \in BOOLEAN : \E fb_fails \in BOOLEAN :
        \E daily \in BOOLEAN : CronRun(current, DRY_RUN, fb_fails, daily)

SpecSold == InitSold /\ [][NextSold]_vars

C29Last == runlog'[Len(runlog')]

C29BecameMissing(s) == inventory[s] # "MISSING" /\ inventory'[s] = "MISSING"

C29BecameSold(s) == inventory[s] # "SOLD" /\ inventory'[s] = "SOLD"

C29PostMarked(s) ==
    /\ posts'[s] # posts[s]
    /\ posts'[s].status = "SOLD" \/ StartsWith(posts'[s].text, SoldMarker)

C29AbsentFromValid(entry, s) == entry.scrape_ok /\ s \notin entry.current

\* an earlier valid run without the vehicle, and no run since that saw it
C29FirstAbsence(s) ==
    \E i \in 1..Len(runlog) :
        /\ C29AbsentFromValid(runlog[i], s)
        /\ \A k \in (i + 1)..Len(runlog) : s \notin runlog[k].current

C29Step ==
    /\ \A s \in TrackedSlugs :
          /\ (C29BecameSold(s) \/ C29PostMarked(s))
                => /\ inventory[s] = "MISSING" /\ inventory'[s] = "SOLD"
                   /\ C29AbsentFromValid(C29Last, s)
                   /\ C29FirstAbsence(s)
          /\ C29BecameMissing(s)
                => inventory[s] = "ACTIVE" /\ C29AbsentFromValid(C29Last, s)
    /\ ~C29Last.scrape_ok
          => \A s \in Slugs : /\ ~C29BecameMissing(s) /\ ~C29BecameSold(s)
                              /\ ~C29PostMarked(s)

\* C29: a row becomes SOLD, and its post gets the sold banner, only in a run
\* with a valid scrape that does not see the vehicle, when the row is MISSING
\* because an earlier run with a valid scrape did not see it and no run since
\* saw it; a row becomes MISSING only from ACTIVE in such a run; a run whose
\* scrape is too small moves no row to MISSING or SOLD and marks no post sold.
C29_TwoStepSoldFlow == [][C29Step]_vars

\* a vehicle sold, its post carrying the banner, after a valid run without it,
\* a run with too small a scrape, and a second valid run without it
C29_Witness ==
    /\ pc = "cron" /\ Len(runlog) = 3
    /\ ~runlog[2].scrape_ok
    /\ \E s \in TrackedSlugs :
          /\ inventory[s] = "SOLD"
          /\ posts[s].status = "SOLD"
          /\ StartsWith(posts[s].text, _sold_prefix)

====
